---- MODULE Spec2Model ----
(***************************************************************************)
(* Model of the API monitoring middleware                                  *)
(* (src/app/middleware/api_monitor_middleware.py) and of the insert it     *)
(* hands its records to (src/app/service/ai_log/ai_log_service.py).        *)
(*                                                                         *)
(* Two kinds of text appear:                                               *)
(*  - short strings (header values, credentials, paths) are sequences of   *)
(*    one-character strings, <<"a", "b">>;                                 *)
(*  - bodies are run-length encoded, a sequence of runs <<symbol, count>>  *)
(*    in canonical form (no empty run, adjacent runs differ), so that a    *)
(*    body longer than MAX_BODY_LENGTH is a small value.  A symbol is a    *)
(*    byte value (bytes) or a code point (str).                            *)
(***************************************************************************)
EXTENDS Integers, Sequences, FiniteSets, TLC

VARIABLES
    pc,                 \* position of dispatch in the exchange
    request,            \* the request as the client sent it
    headers_dict,       \* dispatch local: the captured headers (insertion ordered)
    api_key,            \* dispatch local: the extracted raw credential
    body,               \* dispatch local: the request bytes read by the middleware
    request_body_str,   \* dispatch local: the request body as text
    body_read,          \* request.body(): "unread", "read" or "failed"
    replay_installed,   \* request._receive has been replaced by the replay
    handler_saw,        \* what the wrapped handler read as the request body
    handler_calls,      \* number of times call_next invoked the wrapped handler
    response,           \* the response the wrapped handler produced
    chunk_idx,          \* chunks of response.body_iterator consumed so far
    response_body,      \* dispatch local: the accumulated response bytes
    response_body_str,  \* dispatch local: the response body as text
    returned,           \* what the caller of dispatch got
    tasks,              \* persistence tasks created and not yet run
    store,              \* the ai_log table
    next_id,            \* the table's autoincrement counter
    log,                \* messages written to the shared logger
    add_result,         \* what the last call of add_ai_log returned, or "none"
    key,                \* redaction check: the input
    masked,             \* redaction check: the output
    phase,              \* redaction check: "off", "input" or "output"
    fn,                 \* extraction check: the function applied, or "none"
    arg,                \* extraction check: its input
    result,             \* extraction check: its output, Pending before the call
    api,                \* the management API call in progress
    api_resp            \* the response to the last management API call

vars == <<pc, request, headers_dict, api_key, body, request_body_str,
          body_read, replay_installed, handler_saw, handler_calls,
          response, chunk_idx, response_body, response_body_str, returned,
          tasks, store, next_id, log, add_result, key, masked, phase, fn, arg,
          result, api, api_resp>>

dispatch_vars == <<pc, request, headers_dict, api_key, body, request_body_str,
                   body_read, replay_installed, handler_saw, handler_calls,
                   response, chunk_idx, response_body, response_body_str, returned,
                   tasks, store, next_id, log, add_result>>

redact_vars == <<key, masked, phase>>

extract_vars == <<fn, arg, result>>

api_vars == <<api, api_resp>>

---------------------------------------------------------------------------
(* Bounds of the model. *)

MaxKeyLen == 13         \* longest credential of the redaction check
MaxReqHeaders == 2      \* most headers on a request
MaxRespHeaders == 2     \* most headers on a handler response
MaxChunks == 2          \* most chunks of a response body

---------------------------------------------------------------------------
(* Python's None.  It is a one-element sequence whose element is not a     *)
(* single character, so it differs from every string.                      *)

None == <<"None">>

---------------------------------------------------------------------------
(* Short strings. *)

StartsWith(s, prefix) ==
    /\ Len(s) >= Len(prefix)
    /\ SubSeq(s, 1, Len(prefix)) = prefix

\* s[:n] for n >= 0
Prefix(s, n) == SubSeq(s, 1, IF n < Len(s) THEN n ELSE Len(s))

\* s[-n:] for n > 0
Suffix(s, n) == SubSeq(s, IF n < Len(s) THEN Len(s) - n + 1 ELSE 1, Len(s))

\* s[n:] for n >= 0
From(s, n) == SubSeq(s, n + 1, Len(s))

Contains(s, t) ==
    \E i \in 0..(Len(s) - Len(t)) : SubSeq(s, i + 1, i + Len(t)) = t

Dots == <<".", ".", ".">>
Stars == <<"*", "*", "*">>

StringsUpTo(alphabet, n) == UNION {[1..k -> alphabet] : k \in 0..n}

---------------------------------------------------------------------------
(* redact_api_key *)

redact_api_key_Boundary(k) ==
    IF k = None \/ k = <<>> THEN None
    ELSE IF Len(k) < 12
         THEN (IF Len(k) > 6 THEN Prefix(k, 3) \o Dots \o Suffix(k, 3) ELSE Stars)
         ELSE Prefix(k, 6) \o Dots \o Suffix(k, 6)

redact_api_key(k) ==
    IF k = None \/ k = <<>> THEN None
    ELSE IF Len(k) <= 12
         THEN (IF Len(k) > 6 THEN Prefix(k, 3) \o Dots \o Suffix(k, 3) ELSE Stars)
         ELSE Prefix(k, 6) \o Dots \o Suffix(k, 6)

---------------------------------------------------------------------------
(* Run-length encoded text. *)

Run(sym, n) == IF n = 0 THEN <<>> ELSE << <<sym, n>> >>

\* a + b
RCat(a, b) ==
    IF a = <<>> THEN b
    ELSE IF b = <<>> THEN a
    ELSE IF a[Len(a)][1] = b[1][1]
         THEN SubSeq(a, 1, Len(a) - 1)
                 \o << <<b[1][1], a[Len(a)][2] + b[1][2]>> >>
                 \o SubSeq(b, 2, Len(b))
         ELSE a \o b

RECURSIVE RLen(_)
\* len(t)
RLen(t) == IF t = <<>> THEN 0 ELSE t[1][2] + RLen(Tail(t))

RECURSIVE RTake(_, _)
\* t[:n]
RTake(t, n) ==
    IF t = <<>> \/ n <= 0 THEN <<>>
    ELSE IF t[1][2] >= n THEN << <<t[1][1], n>> >>
    ELSE <<t[1]>> \o RTake(Tail(t), n - t[1][2])

RECURSIVE RDrop(_, _)
\* t[n:]
RDrop(t, n) ==
    IF t = <<>> THEN <<>>
    ELSE IF n <= 0 THEN t
    ELSE IF t[1][2] > n THEN << <<t[1][1], t[1][2] - n>> >> \o Tail(t)
    ELSE RDrop(Tail(t), n - t[1][2])

REndsWith(t, suffix) ==
    /\ RLen(t) >= RLen(suffix)
    /\ RDrop(t, RLen(t) - RLen(suffix)) = suffix

RECURSIVE RText(_)
\* the text whose symbols are the elements of the sequence s
RText(s) == IF s = <<>> THEN <<>> ELSE RCat(Run(s[1], 1), RText(Tail(s)))

RECURSIVE DecimalStr(_)
\* str(n) for n >= 0, as code points
DecimalStr(n) ==
    IF n < 10 THEN Run(48 + n, 1)
    ELSE RCat(DecimalStr(n \div 10), Run(48 + (n % 10), 1))

RECURSIVE decode_utf8_replace(_)
\* bytes.decode('utf-8', errors='replace') on bytes that are ASCII or 0xFF:
\* an ASCII byte is its own code point, and 0xFF, which no UTF-8 sequence
\* contains, becomes U+FFFD, one per byte.
decode_utf8_replace(b) ==
    IF b = <<>> THEN <<>>
    ELSE RCat(Run(IF b[1][1] < 128 THEN b[1][1] ELSE 65533, b[1][2]),
              decode_utf8_replace(Tail(b)))

---------------------------------------------------------------------------
(* truncate_body *)

MAX_BODY_LENGTH == 50000

\* "\n... (截断，共 " and " 字符)"
TruncationHead == RText(<<10, 46, 46, 46, 32, 40, 25130, 26029, 65292, 20849, 32>>)
TruncationTail == RText(<<32, 23383, 31526, 41>>)

TruncationMarker(n) == RCat(RCat(TruncationHead, DecimalStr(n)), TruncationTail)

truncate_body(data) ==
    IF RLen(data) > MAX_BODY_LENGTH
    THEN RCat(RTake(data, MAX_BODY_LENGTH), TruncationMarker(RLen(data)))
    ELSE data

---------------------------------------------------------------------------
(* should_monitor *)

MONITOR_PATHS ==
    { <<"/", "v", "1", "/">>,
      <<"/", "g", "e", "m", "i", "n", "i", "/">>,
      <<"/", "o", "p", "e", "n", "a", "i", "/">>,
      <<"/", "h", "f", "/">>,
      <<"/", "v", "e", "r", "t", "e", "x", "-", "e", "x", "p", "r", "e", "s", "s", "/">> }

EXCLUDE_PATHS ==
    { <<"/", "s", "t", "a", "t", "i", "c", "/">>,
      <<"/", "h", "e", "a", "l", "t", "h">>,
      <<"/", "f", "a", "v", "i", "c", "o", "n", ".", "i", "c", "o">> }

should_monitor_DefaultTrue(path) ==
    IF \E exclude \in EXCLUDE_PATHS : StartsWith(path, exclude) THEN FALSE
    ELSE IF \E monitor \in MONITOR_PATHS : StartsWith(path, monitor) THEN TRUE
    ELSE TRUE

should_monitor(path) ==
    IF \E exclude \in EXCLUDE_PATHS : StartsWith(path, exclude) THEN FALSE
    ELSE IF \E monitor \in MONITOR_PATHS : StartsWith(path, monitor) THEN TRUE
    ELSE FALSE

---------------------------------------------------------------------------
(* Dictionaries keep insertion order: a sequence of <<key, value>> pairs   *)
(* with distinct keys.                                                     *)

HasKey(d, k) == \E i \in 1..Len(d) : d[i][1] = k

\* d[k] = v
DictSet(d, k, v) ==
    IF HasKey(d, k)
    THEN [i \in 1..Len(d) |-> IF d[i][1] = k THEN <<k, v>> ELSE d[i]]
    ELSE Append(d, <<k, v>>)

\* Headers.__getitem__: the value of the first header named k
FirstValue(hs, k) ==
    hs[CHOOSE i \in 1..Len(hs) : hs[i][1] = k /\ \A j \in 1..(i - 1) : hs[j][1] # k][2]

RECURSIVE DictOfMapping(_, _, _)
\* dict(mapping): for each key of keys(), in order, d[key] = mapping[key]
DictOfMapping(hs, i, d) ==
    IF i > Len(hs) THEN d
    ELSE DictOfMapping(hs, i + 1, DictSet(d, hs[i][1], FirstValue(hs, hs[i][1])))

---------------------------------------------------------------------------
(* Python values as the extraction functions see them.  json.loads is the  *)
(* standard library's: to these functions a text is what json.loads makes  *)
(* of it, JSONDecodeError when it raises and the parsed value otherwise.   *)
(* A value is None or a tagged pair; the items of a dict are a sequence of *)
(* <<key, value>> pairs with distinct keys.                                *)

JSONDecodeError == <<"JSONDecodeError">>

PyStr(s) == <<"str", s>>
PyInt(n) == <<"int", n>>
PyList(xs) == <<"list", xs>>
PyDict(items) == <<"dict", items>>

IsStr(x) == x[1] = "str"
IsInt(x) == x[1] = "int"
IsList(x) == x[1] = "list"
IsDict(x) == x[1] = "dict"

\* bool(x)
Truthy(x) ==
    /\ x # None
    /\ IF IsInt(x) THEN x[2] # 0 ELSE x[2] # <<>>

\* d.get(k, default)
DictGet(d, k, default) ==
    IF HasKey(d[2], k) THEN FirstValue(d[2], k) ELSE default

---------------------------------------------------------------------------
(* extract_model_from_body, extract_model_from_path and the model name of  *)
(* dispatch                                                                *)

\* data.get raises AttributeError on a value that is not a dict
extract_model_from_body(loaded) ==
    IF loaded = JSONDecodeError THEN None
    ELSE IF ~IsDict(loaded) THEN None
    ELSE DictGet(loaded, "model", None)

ModelsMarker == <<"/", "m", "o", "d", "e", "l", "s", "/">>

\* re.search(r'/models/([^/:]+)', path): the leftmost match, the group greedy
extract_model_from_path(path) ==
    LET
        \* [^/:]
        NameChar(c) == c \notin {"/", ":"}
    IN
    LET starts == {i \in 1..Len(path) :
                      /\ i + 8 <= Len(path)
                      /\ SubSeq(path, i, i + 7) = ModelsMarker
                      /\ NameChar(path[i + 8])}
    IN IF starts = {} THEN None
       ELSE LET i == CHOOSE i \in starts : \A j \in starts : i <= j
                first == i + 8
                last == CHOOSE e \in first..Len(path) :
                            /\ \A k \in first..e : NameChar(path[k])
                            /\ e = Len(path) \/ ~NameChar(path[e + 1])
            IN PyStr(SubSeq(path, first, last))

\* a variant that asks the path first
model_name_PathFirst(read, nonempty, loaded, path) ==
    LET from_body == IF read = "read" /\ nonempty
                     THEN extract_model_from_body(loaded)
                     ELSE None
    IN IF extract_model_from_path(path) # None THEN extract_model_from_path(path)
       ELSE from_body

\* lines 176-189: model_name after the body has been read (read is the
\* outcome of request.body(), nonempty is `if body:`)
model_name(read, nonempty, loaded, path) ==
    LET from_body == IF read = "read" /\ nonempty
                     THEN extract_model_from_body(loaded)
                     ELSE None
    IN IF ~Truthy(from_body) THEN extract_model_from_path(path) ELSE from_body

---------------------------------------------------------------------------
(* extract_tokens_from_response: the result is the tuple                   *)
(* <<prompt_tokens, completion_tokens, total_tokens>>                      *)

\* a variant in which usage is probed last
extract_tokens_from_response_UsageLast(loaded) ==
    IF loaded = JSONDecodeError \/ ~IsDict(loaded) THEN <<None, None, None>>
    ELSE LET usage == DictGet(loaded, "usage", PyDict(<<>>))
             usage_metadata == DictGet(loaded, "usageMetadata", PyDict(<<>>))
         IN IF Truthy(usage) /\ IsDict(usage)
            THEN <<DictGet(usage, "prompt_tokens", None),
                   DictGet(usage, "completion_tokens", None),
                   DictGet(usage, "total_tokens", None)>>
            ELSE IF Truthy(usage_metadata) /\ IsDict(usage_metadata)
            THEN <<DictGet(usage_metadata, "promptTokenCount", None),
                   DictGet(usage_metadata, "candidatesTokenCount", None),
                   DictGet(usage_metadata, "totalTokenCount", None)>>
            ELSE <<None, None, None>>

extract_tokens_from_response(loaded) ==
    IF loaded = JSONDecodeError \/ ~IsDict(loaded) THEN <<None, None, None>>
    ELSE LET usage == DictGet(loaded, "usage", PyDict(<<>>))
             usage_metadata == DictGet(loaded, "usageMetadata", PyDict(<<>>))
         IN IF Truthy(usage) /\ ~IsDict(usage) THEN <<None, None, None>>
            ELSE LET openai == IF Truthy(usage)
                               THEN <<DictGet(usage, "prompt_tokens", None),
                                      DictGet(usage, "completion_tokens", None),
                                      DictGet(usage, "total_tokens", None)>>
                               ELSE <<None, None, None>>
                 IN IF ~Truthy(usage_metadata) THEN openai
                    \* usage_metadata.get raises; what usage set stays
                    ELSE IF ~IsDict(usage_metadata) THEN openai
                    ELSE <<DictGet(usage_metadata, "promptTokenCount", None),
                           DictGet(usage_metadata, "candidatesTokenCount", None),
                           DictGet(usage_metadata, "totalTokenCount", None)>>

---------------------------------------------------------------------------
(* extract_content_preview.  A stretch of the function ends in one of      *)
(* three ways: it returns a value, it raises, or control falls through to  *)
(* the next statement.                                                     *)

Return(v) == <<"return", v>>
Raise == <<"raise">>
Fall == <<"fall">>

RECURSIVE split(_)
\* s.split()
split(s) ==
    LET
        \* the characters str.split() splits on
        Whitespace == {" ", "\n", "\t"}
    IN
    IF s = <<>> THEN <<>>
    ELSE IF s[1] \in Whitespace THEN split(Tail(s))
    ELSE LET n == CHOOSE n \in 1..Len(s) :
                      /\ \A k \in 1..n : s[k] \notin Whitespace
                      /\ n = Len(s) \/ s[n + 1] \in Whitespace
         IN <<SubSeq(s, 1, n)>> \o split(SubSeq(s, n + 1, Len(s)))

RECURSIVE join(_, _)
\* sep.join(words)
join(sep, words) ==
    IF words = <<>> THEN <<>>
    ELSE IF Len(words) = 1 THEN words[1]
    ELSE words[1] \o sep \o join(sep, Tail(words))

max_length == 12

\* text = " ".join(text.split()); text[:max_length] if len(text) > max_length
\* else text.  A value without split() raises AttributeError.
cut_text(text) ==
    IF text = None \/ ~IsStr(text) THEN Raise
    ELSE LET t == join(<<" ">>, split(text[2]))
         IN Return(PyStr(IF Len(t) > max_length THEN Prefix(t, max_length) ELSE t))

RECURSIVE scan_items(_, _)
\* lines 64-68: for item in content
scan_items(content, j) ==
    IF j > Len(content) THEN Fall
    ELSE LET item == content[j]
         IN IF item # None /\ IsDict(item)
                 /\ DictGet(item, "type", None) = PyStr(<<"t", "e", "x", "t">>)
            THEN cut_text(DictGet(item, "text", PyStr(<<>>)))
            ELSE scan_items(content, j + 1)

RECURSIVE scan_messages(_, _)
\* lines 55-68: for msg in messages
scan_messages(messages, i) ==
    IF i > Len(messages) THEN Fall
    ELSE LET msg == messages[i]
         IN IF msg = None \/ ~IsDict(msg) THEN Raise
            ELSE LET content == DictGet(msg, "content", None)
                 IN IF ~Truthy(content) THEN scan_messages(messages, i + 1)
                    ELSE IF IsStr(content) THEN cut_text(content)
                    ELSE IF IsList(content)
                         THEN LET r == scan_items(content[2], 1)
                              IN IF r = Fall THEN scan_messages(messages, i + 1)
                                 ELSE r
                    ELSE scan_messages(messages, i + 1)

RECURSIVE scan_parts(_, _)
\* lines 74-78: for part in parts
scan_parts(parts, j) ==
    IF j > Len(parts) THEN Fall
    ELSE LET part == parts[j]
         IN IF part # None /\ IsDict(part) /\ HasKey(part[2], "text")
            THEN cut_text(DictGet(part, "text", PyStr(<<>>)))
            ELSE scan_parts(parts, j + 1)

RECURSIVE scan_contents(_, _)
\* lines 72-78: for c in contents.  Iterating None or an int raises
\* TypeError; the elements of a str or of a dict are strs, never dicts.
scan_contents(contents, i) ==
    IF i > Len(contents) THEN Fall
    ELSE LET c == contents[i]
         IN IF c = None \/ ~IsDict(c) THEN Raise
            ELSE LET parts == DictGet(c, "parts", PyList(<<>>))
                 IN IF parts = None \/ IsInt(parts) THEN Raise
                    ELSE IF ~IsList(parts) THEN scan_contents(contents, i + 1)
                    ELSE LET r == scan_parts(parts[2], 1)
                         IN IF r = Fall THEN scan_contents(contents, i + 1)
                            ELSE r

\* a variant that probes prompt first
extract_content_preview_PromptFirst(loaded) ==
    IF loaded = JSONDecodeError \/ loaded = None \/ ~IsDict(loaded) THEN None
    ELSE LET messages == DictGet(loaded, "messages", PyList(<<>>))
             contents == DictGet(loaded, "contents", PyList(<<>>))
             prompt == DictGet(loaded, "prompt", None)
             r3 == IF ~Truthy(prompt) THEN Fall
                   ELSE cut_text(prompt)
             r1 == IF r3 # Fall THEN r3
                   ELSE IF ~Truthy(messages) THEN Fall
                   ELSE IF ~IsList(messages) THEN Raise
                   ELSE scan_messages(messages[2], 1)
             r2 == IF r1 # Fall THEN r1
                   ELSE IF ~Truthy(contents) THEN Fall
                   ELSE IF ~IsList(contents) THEN Raise
                   ELSE scan_contents(contents[2], 1)
         IN IF r2[1] = "return" THEN r2[2] ELSE None

\* a truthy value that is not a list raises in the loop or at the first
\* element's .get
extract_content_preview(loaded) ==
    IF loaded = JSONDecodeError \/ loaded = None \/ ~IsDict(loaded) THEN None
    ELSE LET messages == DictGet(loaded, "messages", PyList(<<>>))
             contents == DictGet(loaded, "contents", PyList(<<>>))
             prompt == DictGet(loaded, "prompt", None)
             r1 == IF ~Truthy(messages) THEN Fall
                   ELSE IF ~IsList(messages) THEN Raise
                   ELSE scan_messages(messages[2], 1)
             r2 == IF r1 # Fall THEN r1
                   ELSE IF ~Truthy(contents) THEN Fall
                   ELSE IF ~IsList(contents) THEN Raise
                   ELSE scan_contents(contents[2], 1)
             r3 == IF r2 # Fall THEN r2
                   ELSE IF ~Truthy(prompt) THEN Fall
                   ELSE cut_text(prompt)
         IN IF r3[1] = "return" THEN r3[2] ELSE None

---------------------------------------------------------------------------
(* Inputs: the requests a client sends and the responses the wrapped       *)
(* handler produces.  A header is a pair <<name, value>>; the server hands *)
(* request header names over in lower case.  Request header values are     *)
(* short strings, response header values are opaque.                       *)

Bearer == <<"B", "e", "a", "r", "e", "r", " ">>

\* sk-abcdefghij, 13 characters
TokenLong == <<"s", "k", "-", "a", "b", "c", "d", "e", "f", "g", "h", "i", "j">>
\* abc...def, 9 characters
TokenDotted == <<"a", "b", "c", ".", ".", ".", "d", "e", "f">>
\* key1234, 7 characters
TokenShort == <<"k", "e", "y", "1", "2", "3", "4">>

ContentTypeHeader == <<"content-type", <<"j", "s", "o", "n">> >>

ReqHeaderPairs ==
    { <<"authorization", Bearer \o TokenLong>>,
      <<"authorization", Bearer \o TokenDotted>>,
      <<"authorization", <<>> >>,
      <<"x-api-key", TokenShort>>,
      ContentTypeHeader,
      <<"cookie", <<"s", "=", "1">> >> }

ReqHeaderLists == UNION {[1..n -> ReqHeaderPairs] : n \in 0..MaxReqHeaders}

\* bytes: "a" is 97, 0xFF is 255
SmallBody == Run(97, 1)

\* bytes: {"model":"X","prompt":"p"}
JsonRequestBody ==
    RText(<<123, 34, 109, 111, 100, 101, 108, 34, 58, 34, 88, 34, 44, 34,
            112, 114, 111, 109, 112, 116, 34, 58, 34, 112, 34, 125>>)

\* bytes: {"usage":{"total_tokens":3}}
JsonResponseBody ==
    RText(<<123, 34, 117, 115, 97, 103, 101, 34, 58, 123, 34, 116, 111,
            116, 97, 108, 95, 116, 111, 107, 101, 110, 115, 34, 58, 51,
            125, 125>>)

ReqBodies ==
    { <<>>, SmallBody, RCat(Run(255, 1), Run(97, 1)),
      Run(97, MAX_BODY_LENGTH), Run(97, MAX_BODY_LENGTH + 1), JsonRequestBody }

MonitoredPath == <<"/", "v", "1", "/", "c">>
\* /v1/models/m:g
MonitoredModelPath == <<"/", "v", "1">> \o ModelsMarker \o <<"m", ":", "g">>
UnmonitoredPaths == { <<"/", "h", "e", "a", "l", "t", "h">>, <<"/", "a", "p", "i">> }

\* Either the headers vary or the body does.
Requests ==
    {[path |-> MonitoredPath, method |-> "POST", headers |-> h, body |-> SmallBody] :
        h \in ReqHeaderLists}
    \cup
    {[path |-> MonitoredPath, method |-> "POST", headers |-> <<ContentTypeHeader>>,
      body |-> b] : b \in ReqBodies}
    \cup
    {[path |-> MonitoredModelPath, method |-> "POST", headers |-> <<ContentTypeHeader>>,
      body |-> b] : b \in {SmallBody, JsonRequestBody}}
    \cup
    {[path |-> p, method |-> "POST",
      headers |-> << <<"authorization", Bearer \o TokenLong>> >>, body |-> SmallBody] :
        p \in UnmonitoredPaths}

RespHeaderPairs ==
    { <<"set-cookie", "a=1">>, <<"set-cookie", "b=2">>, <<"content-type", "text/plain">> }

\* a handler sets no header line twice
RespHeaderLists ==
    {h \in UNION {[1..n -> RespHeaderPairs] : n \in 0..MaxRespHeaders} :
        \A i, j \in 1..Len(h) : h[i] = h[j] => i = j}

\* the body iterator of call_next yields non-empty chunks only
Chunks == { Run(97, 1), Run(255, 1), Run(97, MAX_BODY_LENGTH) }

ChunkLists == UNION {[1..n -> Chunks] : n \in 1..MaxChunks} \cup {<<>>}

Statuses == {200, 500}

\* A handler that returns a plain Response (one buffer, with its content-length;
\* the buffer one character or a JSON document), or a StreamingResponse (any
\* number of chunks, no content-length).
HandlerResponses ==
    {[status |-> st,
      headers |-> h \o << <<"content-length", ToString(RLen(SmallBody))>> >>,
      chunks |-> <<SmallBody>>, streaming |-> FALSE] :
        st \in Statuses, h \in RespHeaderLists}
    \cup
    {[status |-> 200,
      headers |-> << <<"content-length", ToString(RLen(JsonResponseBody))>> >>,
      chunks |-> <<JsonResponseBody>>, streaming |-> FALSE]}
    \cup
    {[status |-> 200, headers |-> << <<"content-type", "text/plain">> >>,
      chunks |-> c, streaming |-> TRUE] : c \in ChunkLists}

NoCall ==
    [call |-> [op |-> "none"], step |-> "none", logs |-> <<>>, before |-> <<>>,
     after |-> <<>>, failed |-> FALSE, count |-> 0 - 1, round |-> 0,
     prev |-> [call |-> [op |-> "none"], status |-> 0, before |-> <<>>,
               after |-> <<>>]]
NoApiResponse == [status |-> 0, content |-> None]

NoRequest == [path |-> <<>>, method |-> "", headers |-> <<>>, body |-> <<>>]
NoResponse == [status |-> 0, headers |-> <<>>, chunks |-> <<>>, streaming |-> FALSE]

---------------------------------------------------------------------------
(* dispatch: the header loop *)

important_headers_WithCookie ==
    {"content-type", "authorization", "user-agent", "x-api-key", "cookie"}

important_headers == {"content-type", "authorization", "user-agent", "x-api-key"}

\* str.lower() on a header name or on a sort order
lower(k) ==
    CASE k = "Authorization" -> "authorization"
      [] k = "ASC" -> "asc"
      [] k = "Asc" -> "asc"
      [] k = "DESC" -> "desc"
      [] k = "X-Api-Key" -> "x-api-key"
      [] k = "Content-Type" -> "content-type"
      [] k = "User-Agent" -> "user-agent"
      [] OTHER -> k

\* redact_api_key(v) or v
StoredCredentialHeader(v) ==
    IF redact_api_key(v) # None THEN redact_api_key(v) ELSE v

NextApiKey(k, v, ak) ==
    IF lower(k) = "authorization" /\ StartsWith(v, Bearer) THEN From(v, 7)
    ELSE IF lower(k) = "x-api-key" THEN v
    ELSE ak

RECURSIVE capture_headers(_, _, _)
\* the loop over request.headers.items(); the result is <<headers_dict, api_key>>
capture_headers(hs, d, ak) ==
    IF hs = <<>> THEN <<d, ak>>
    ELSE LET k == hs[1][1]
             v == hs[1][2]
         IN IF lower(k) \in important_headers
            THEN IF lower(k) \in {"authorization", "x-api-key"}
                 THEN capture_headers(Tail(hs),
                                      DictSet(d, k, StoredCredentialHeader(v)),
                                      NextApiKey(k, v, ak))
                 ELSE capture_headers(Tail(hs), DictSet(d, k, v), ak)
            ELSE capture_headers(Tail(hs), d, ak)

---------------------------------------------------------------------------
(* dispatch: the bodies and the rebuilt response *)

\* f"[Error reading body: {e}]" for an exception whose message is empty
\* (ClientDisconnect)
ErrorPlaceholder ==
    RText(<<91, 69, 114, 114, 111, 114, 32, 114, 101, 97, 100, 105, 110, 103, 32,
            98, 111, 100, 121, 58, 32, 93>>)

\* x.decode('utf-8', errors='replace') if x else ""
body_to_str(x) == IF x # <<>> THEN decode_utf8_replace(x) ELSE <<>>

\* the replacement receive(): {"type": "http.request", "body": body}
receive_Empty(b) == <<>>

receive(b) == b

\* what the handler gets when it reads the request body
HandlerReceive ==
    IF replay_installed THEN receive(body)
    ELSE IF body_read # "unread" THEN <<>>
    ELSE request.body

\* response_body += chunk
AppendChunk_Overwrite(acc, chunk) == chunk

AppendChunk(acc, chunk) == RCat(acc, chunk)

\* json.dumps(headers_dict, ensure_ascii=False): the text of a JSON object is
\* determined by its members in order, and is represented by them.
json_dumps(d) == [object |-> d]

\* json.loads on the texts of the exchanges: the two JSON documents parse to
\* their values; every other text of the model (empty, "a", U+FFFD, runs of
\* "a", the placeholder) is not JSON.
json_loads(text) ==
    IF text = JsonRequestBody
    THEN PyDict(<< <<"model", PyStr(<<"X">>)>>, <<"prompt", PyStr(<<"p">>)>> >>)
    ELSE IF text = JsonResponseBody
    THEN PyDict(<< <<"usage", PyDict(<< <<"total_tokens", PyInt(3)>> >>)>> >>)
    ELSE JSONDecodeError

\* the keyword arguments of _save_log, but for the two readings of the clock
\* (latency_ms, request_time)
LogRecord(respStr) ==
    [method |-> request.method,
     path |-> request.path,
     request_headers |-> json_dumps(headers_dict),
     request_body |-> truncate_body(request_body_str),
     status_code |-> response.status,
     response_body |-> truncate_body(respStr),
     model_name |-> model_name(body_read, body # <<>>, json_loads(request_body_str),
                               request.path),
     api_key |-> redact_api_key(api_key),
     prompt_tokens |-> extract_tokens_from_response(json_loads(respStr))[1],
     completion_tokens |-> extract_tokens_from_response(json_loads(respStr))[2],
     total_tokens |-> extract_tokens_from_response(json_loads(respStr))[3],
     content_preview |-> extract_content_preview(json_loads(request_body_str))]

\* Response(content=response_body, status_code=response.status_code,
\*          headers=dict(response.headers), media_type=response.media_type)
\* Response.init_headers lower-cases the names and adds a content-length when
\* the dict has none; for an empty body that depends on the Starlette
\* version (populateEmpty).  media_type is None on a call_next response.
RebuiltHeaders(hs, content, populateEmpty) ==
    LET d == DictOfMapping(hs, 1, <<>>)
        raw == [i \in 1..Len(d) |-> <<lower(d[i][1]), d[i][2]>>]
    IN IF ~HasKey(raw, "content-length") /\ (content # <<>> \/ populateEmpty)
       THEN Append(raw, <<"content-length", ToString(RLen(content))>>)
       ELSE raw

RebuiltResponse(populateEmpty) ==
    [kind |-> "response",
     status |-> response.status,
     headers |-> RebuiltHeaders(response.headers, response_body, populateEmpty),
     body |-> response_body]

---------------------------------------------------------------------------
(* The ai_log table and the queries of ai_log_service.  The table is a     *)
(* sequence of rows in the order of their ids, which the database assigns  *)
(* in increasing order.                                                    *)

DateTime(t) == <<"datetime", t>>

\* the values of insert(AILog).values(...), lines 58-73
Row(model, status, time) ==
    [method |-> "POST",
     path |-> MonitoredPath,
     request_headers |-> json_dumps(<<>>),
     request_body |-> SmallBody,
     status_code |-> status,
     response_body |-> SmallBody,
     latency_ms |-> 5,
     model_name |-> model,
     api_key |-> None,
     request_time |-> DateTime(time),
     prompt_tokens |-> None,
     completion_tokens |-> None,
     total_tokens |-> None,
     content_preview |-> None]

\* column.ilike(pattern): NULL matches nothing
ilike(value, pattern) ==
    LET
        \* lower() on a character
        lower_char(c) ==
            CASE c = "A" -> "a"
              [] c = "B" -> "b"
              [] OTHER -> c
        RECURSIVE like(_, _)
        \* SQL: s LIKE pattern, % any run of characters and _ any one character
        like(s, pat) ==
            IF pat = <<>> THEN s = <<>>
            ELSE IF pat[1] = "%"
                 THEN like(s, Tail(pat)) \/ (s # <<>> /\ like(Tail(s), pat))
            ELSE IF s = <<>> THEN FALSE
            ELSE /\ pat[1] = "_" \/ pat[1] = s[1]
                 /\ like(Tail(s), Tail(pat))
    IN
    /\ value # None
    /\ like([i \in 1..Len(value[2]) |-> lower_char(value[2][i])],
            [i \in 1..Len(pattern) |-> lower_char(pattern[i])])

DecimalDigits == <<"0", "1", "2", "3", "4", "5", "6", "7", "8", "9">>

\* int(s) does not raise ValueError (for s of digits and letters)
IsDecimal(s) ==
    /\ s # <<>>
    /\ \A i \in 1..Len(s) : \E d \in 1..10 : DecimalDigits[d] = s[i]

RECURSIVE int(_)
\* int(s) for s of digits
int(s) ==
    IF s = <<>> THEN 0
    ELSE 10 * int(SubSeq(s, 1, Len(s) - 1))
           + (CHOOSE d \in 0..9 : DecimalDigits[d + 1] = s[Len(s)])

\* the where() clauses of get_ai_logs and of get_ai_logs_count
where_clauses(row, q) ==
    /\ (q.model_search # None /\ q.model_search # <<>>) =>
          ilike(row.model_name, <<"%">> \o q.model_search \o <<"%">>)
    /\ (q.status_code_search # None /\ q.status_code_search # <<>>
          /\ IsDecimal(q.status_code_search)) =>
          row.status_code = int(q.status_code_search)
    /\ q.start_date # None => row.request_time[2] >= q.start_date[2]
    /\ q.end_date # None => row.request_time[2] <= q.end_date[2]

\* the columns of select(...), lines 108-118
list_columns(row) ==
    [id |-> row.id,
     model_name |-> row.model_name,
     request_time |-> row.request_time,
     content_preview |-> row.content_preview,
     prompt_tokens |-> row.prompt_tokens,
     completion_tokens |-> row.completion_tokens,
     total_tokens |-> row.total_tokens,
     status_code |-> row.status_code,
     latency_ms |-> row.latency_ms]

\* getattr(AILog, sort_by, AILog.id), line 135: the column of that name, the
\* attribute of that name when the class has one that is no column (every
\* class has __class__), AILog.id when it has no attribute of that name
sort_column(sort_by) ==
    IF sort_by \in {"id", "method", "path", "request_headers", "request_body",
                    "status_code", "response_body", "latency_ms", "model_name",
                    "api_key", "request_time", "prompt_tokens", "completion_tokens",
                    "total_tokens", "content_preview"}
    THEN sort_by
    ELSE IF sort_by \in {"__class__"} THEN "not a column"
    ELSE "id"

\* order_by(asc(column)) or order_by(desc(column)), lines 136-139: the orders
\* in which the database may return the rows; rows of equal value come in
\* any order.  (For the columns that hold numbers.)
order_by(rows, q) ==
    LET column == sort_column(q.sort_by)
        n == Len(rows)
        orders == {f \in [1..n -> 1..n] : \A i, j \in 1..n : i # j => f[i] # f[j]}
        sorted(f) ==
            \A i, j \in 1..n : i < j =>
                IF lower(q.sort_order) = "asc"
                THEN rows[f[i]][column] <= rows[f[j]][column]
                ELSE rows[f[i]][column] >= rows[f[j]][column]
    IN {[i \in 1..n |-> rows[f[i]]] : f \in {g \in orders : sorted(g)}}

\* get_ai_logs: the results the database may give
get_ai_logs(table, q) ==
    LET matching == SelectSeq(table, LAMBDA row : where_clauses(row, q))
        page(ordered) ==
            SubSeq(ordered, q.offset + 1,
                   IF q.offset + q.limit < Len(ordered)
                   THEN q.offset + q.limit ELSE Len(ordered))
    IN {[i \in 1..Len(page(ordered)) |-> list_columns(page(ordered)[i])] :
            ordered \in order_by(matching, q)}

\* get_ai_logs_count: `result or 0`
get_ai_logs_count(table, q) ==
    Len(SelectSeq(table, LAMBDA row : where_clauses(row, q)))

\* get_ai_log_details: dict(result) if result else None
get_ai_log_details(table, log_id) ==
    IF \E i \in 1..Len(table) : table[i].id = log_id
    THEN table[CHOOSE i \in 1..Len(table) : table[i].id = log_id]
    ELSE None

\* a variant that renumbers the rows that follow the deleted one
delete_where_id_Renumbers(table, log_id) ==
    LET kept == SelectSeq(table, LAMBDA row : row.id # log_id)
    IN [i \in 1..Len(kept) |->
           IF kept[i].id > log_id THEN [kept[i] EXCEPT !.id = kept[i].id - 1]
           ELSE kept[i]]

\* delete(AILog).where(AILog.id == log_id)
delete_where_id(table, log_id) ==
    SelectSeq(table, LAMBDA row : row.id # log_id)

\* a variant that deletes the row of the first id only
delete_where_id_in_FirstOnly(table, log_ids) ==
    SelectSeq(table, LAMBDA row : log_ids[1] # row.id)

\* delete(AILog).where(AILog.id.in_(log_ids))
delete_where_id_in(table, log_ids) ==
    SelectSeq(table, LAMBDA row : \A i \in 1..Len(log_ids) : log_ids[i] # row.id)

AI_LOG_RETENTION_DAYS == 3

\* datetime.now() - timedelta(days=days), in days
cutoff_date(now, days) == now - days

\* a variant that also deletes the rows at the cutoff
delete_where_older_Inclusive(table, cutoff) ==
    SelectSeq(table, LAMBDA row : ~(row.request_time[2] <= cutoff))

\* delete(AILog).where(AILog.request_time < cutoff_date)
delete_where_older(table, cutoff) ==
    SelectSeq(table, LAMBDA row : ~(row.request_time[2] < cutoff))

---------------------------------------------------------------------------
(* State after construction: no exchange yet, nothing scheduled, an empty  *)
(* table.                                                                  *)

InitExchange ==
    /\ pc = "Idle"
    /\ request = NoRequest
    /\ headers_dict = <<>>
    /\ api_key = None
    /\ body = <<>>
    /\ request_body_str = <<>>
    /\ body_read = "unread"
    /\ replay_installed = FALSE
    /\ handler_saw = None
    /\ handler_calls = 0
    /\ response = NoResponse
    /\ chunk_idx = 0
    /\ response_body = <<>>
    /\ response_body_str = <<>>
    /\ returned = [kind |-> "none"]

InitDispatch ==
    /\ InitExchange
    /\ tasks = <<>>
    /\ store = <<>>
    /\ next_id = 1
    /\ log = <<>>
    /\ add_result = "none"

\* no redaction check
InitRedactOff ==
    /\ key = None
    /\ masked = None
    /\ phase = "off"

\* no extraction check
InitExtractOff ==
    /\ fn = "none"
    /\ arg = None
    /\ result = None

\* no management API call yet
InitApiOff ==
    /\ api = NoCall
    /\ api_resp = NoApiResponse

Init ==
    /\ InitDispatch
    /\ InitRedactOff
    /\ InitExtractOff
    /\ InitApiOff

---------------------------------------------------------------------------
(* dispatch, one action per stretch between two awaits *)

\* lines 144-171: the routing gate and the header loop
Begin ==
    /\ pc = "Idle"
    /\ phase = "off"
    /\ \E req \in Requests :
        /\ request' = req
        /\ IF ~should_monitor(req.path)
           THEN /\ pc' = "PassThrough"
                /\ handler_calls' = handler_calls + 1
                /\ UNCHANGED <<headers_dict, api_key>>
           ELSE /\ pc' = "CapturingRequest"
                /\ headers_dict' = capture_headers(req.headers, <<>>, None)[1]
                /\ api_key' = capture_headers(req.headers, <<>>, None)[2]
                /\ UNCHANGED handler_calls
    /\ UNCHANGED <<body, request_body_str, body_read, replay_installed,
                   handler_saw, response, chunk_idx, response_body,
                   response_body_str, returned, tasks, store, next_id, log>>
    /\ UNCHANGED add_result
    /\ UNCHANGED <<redact_vars, extract_vars, api_vars>>

\* line 145 resumed: the handler of an unmonitored path returns
PassThroughReturns ==
    /\ pc = "PassThrough"
    /\ \E resp \in HandlerResponses :
        /\ response' = resp
        /\ returned' = [kind |-> "passthrough", response |-> resp]
    /\ handler_saw' = HandlerReceive
    /\ pc' = "Done"
    /\ UNCHANGED <<request, headers_dict, api_key, body, request_body_str,
                   body_read, replay_installed, handler_calls, chunk_idx,
                   response_body, response_body_str, tasks, store, next_id, log>>
    /\ UNCHANGED add_result
    /\ UNCHANGED <<redact_vars, extract_vars, api_vars>>

\* line 145 resumed: the handler of an unmonitored path raises
PassThroughRaises ==
    /\ pc = "PassThrough"
    /\ returned' = [kind |-> "exception", source |-> "handler"]
    /\ handler_saw' = HandlerReceive
    /\ pc' = "Raised"
    /\ UNCHANGED <<request, headers_dict, api_key, body, request_body_str,
                   body_read, replay_installed, handler_calls, response,
                   chunk_idx, response_body, response_body_str, tasks, store,
                   next_id, log>>
    /\ UNCHANGED add_result
    /\ UNCHANGED <<redact_vars, extract_vars, api_vars>>

\* a variant that calls the handler twice
ReadRequestBody_CallsTwice ==
    /\ pc = "CapturingRequest"
    /\ body' = request.body
    /\ request_body_str' = body_to_str(request.body)
    /\ body_read' = "read"
    /\ replay_installed' = TRUE
    /\ handler_calls' = handler_calls + 2
    /\ pc' = "Forwarding"
    /\ UNCHANGED <<request, headers_dict, api_key, handler_saw, response, chunk_idx,
                   response_body, response_body_str, returned, tasks, store,
                   next_id, log>>
    /\ UNCHANGED add_result
    /\ UNCHANGED <<redact_vars, extract_vars, api_vars>>

\* lines 178-197: request.body() returns; the replay is installed and the
\* handler is called
ReadRequestBody ==
    /\ pc = "CapturingRequest"
    /\ body' = request.body
    /\ request_body_str' = body_to_str(request.body)
    /\ body_read' = "read"
    /\ replay_installed' = TRUE
    /\ handler_calls' = handler_calls + 1
    /\ pc' = "Forwarding"
    /\ UNCHANGED <<request, headers_dict, api_key, handler_saw, response, chunk_idx,
                   response_body, response_body_str, returned, tasks, store,
                   next_id, log>>
    /\ UNCHANGED add_result
    /\ UNCHANGED <<redact_vars, extract_vars, api_vars>>

\* lines 178-197: request.body() raises; body stays b""
ReadRequestBodyFails ==
    /\ pc = "CapturingRequest"
    /\ body' = <<>>
    /\ request_body_str' = ErrorPlaceholder
    /\ body_read' = "failed"
    /\ replay_installed' = TRUE
    /\ handler_calls' = handler_calls + 1
    /\ pc' = "Forwarding"
    /\ UNCHANGED <<request, headers_dict, api_key, handler_saw, response, chunk_idx,
                   response_body, response_body_str, returned, tasks, store,
                   next_id, log>>
    /\ UNCHANGED add_result
    /\ UNCHANGED <<redact_vars, extract_vars, api_vars>>

\* line 197 resumed, lines 199-203: call_next returns the handler's response
HandlerReturns ==
    /\ pc = "Forwarding"
    /\ \E resp \in HandlerResponses : response' = resp
    /\ handler_saw' = HandlerReceive
    /\ chunk_idx' = 0
    /\ response_body' = <<>>
    /\ pc' = "CapturingResponse"
    /\ UNCHANGED <<request, headers_dict, api_key, body, request_body_str,
                   body_read, replay_installed, handler_calls,
                   response_body_str, returned, tasks, store, next_id, log>>
    /\ UNCHANGED add_result
    /\ UNCHANGED <<redact_vars, extract_vars, api_vars>>

\* a variant that records the exchange whose handler raised
HandlerRaises_Records ==
    /\ pc = "Forwarding"
    /\ returned' = [kind |-> "exception", source |-> "handler"]
    /\ handler_saw' = HandlerReceive
    /\ pc' = "Raised"
    /\ UNCHANGED <<request, headers_dict, api_key, body, request_body_str,
                   body_read, replay_installed, handler_calls, response,
                   chunk_idx, response_body, response_body_str, store,
                   next_id, log>>
    /\ tasks' = Append(tasks, LogRecord(<<>>))
    /\ UNCHANGED add_result
    /\ UNCHANGED <<redact_vars, extract_vars, api_vars>>

\* line 197 resumed: call_next raises; dispatch has no handler for it
HandlerRaises ==
    /\ pc = "Forwarding"
    /\ returned' = [kind |-> "exception", source |-> "handler"]
    /\ handler_saw' = HandlerReceive
    /\ pc' = "Raised"
    /\ UNCHANGED <<request, headers_dict, api_key, body, request_body_str,
                   body_read, replay_installed, handler_calls, response,
                   chunk_idx, response_body, response_body_str, tasks, store,
                   next_id, log>>
    /\ UNCHANGED add_result
    /\ UNCHANGED <<redact_vars, extract_vars, api_vars>>

\* lines 205-210: the body iterator yields its next chunk (both branches of
\* the isinstance test run the same loop)
ReadChunk ==
    /\ pc = "CapturingResponse"
    /\ chunk_idx < Len(response.chunks)
    /\ response_body' =
         (IF response.streaming
          THEN AppendChunk(response_body, response.chunks[chunk_idx + 1])
          ELSE AppendChunk(response_body, response.chunks[chunk_idx + 1]))
    /\ chunk_idx' = chunk_idx + 1
    /\ UNCHANGED <<pc, request, headers_dict, api_key, body, request_body_str,
                   body_read, replay_installed, handler_saw, handler_calls,
                   response, response_body_str, returned, tasks, store, next_id, log>>
    /\ UNCHANGED add_result
    /\ UNCHANGED <<redact_vars, extract_vars, api_vars>>

\* lines 205-210: the body iterator of a streamed response raises instead of
\* yielding or finishing; the loop stands in no try block
StreamFails ==
    /\ pc = "CapturingResponse"
    /\ response.streaming
    /\ returned' = [kind |-> "exception", source |-> "body_iterator"]
    /\ pc' = "Raised"
    /\ UNCHANGED <<request, headers_dict, api_key, body, request_body_str,
                   body_read, replay_installed, handler_saw, handler_calls,
                   response, chunk_idx, response_body, response_body_str, tasks,
                   store, next_id, log>>
    /\ UNCHANGED add_result
    /\ UNCHANGED <<redact_vars, extract_vars, api_vars>>

\* a variant that waits for the task before it returns
ScheduleAndReturn_Awaits ==
    /\ pc = "CapturingResponse"
    /\ chunk_idx = Len(response.chunks)
    /\ response_body_str' = body_to_str(response_body)
    /\ tasks' = Append(tasks, LogRecord(body_to_str(response_body)))
    /\ pc' = "AwaitingSave"
    /\ UNCHANGED <<request, headers_dict, api_key, body, request_body_str,
                   body_read, replay_installed, handler_saw, handler_calls,
                   response, chunk_idx, response_body, returned, store, next_id, log>>
    /\ UNCHANGED add_result
    /\ UNCHANGED <<redact_vars, extract_vars, api_vars>>

\* lines 212-246: the iterator is exhausted; the task is created and the
\* rebuilt response returned, with no await in between
ScheduleAndReturn ==
    /\ pc = "CapturingResponse"
    /\ chunk_idx = Len(response.chunks)
    /\ response_body_str' = body_to_str(response_body)
    /\ tasks' = Append(tasks, LogRecord(body_to_str(response_body)))
    /\ \E populateEmpty \in BOOLEAN : returned' = RebuiltResponse(populateEmpty)
    /\ pc' = "Done"
    /\ UNCHANGED <<request, headers_dict, api_key, body, request_body_str,
                   body_read, replay_installed, handler_saw, handler_calls,
                   response, chunk_idx, response_body, store, next_id, log>>
    /\ UNCHANGED add_result
    /\ UNCHANGED <<redact_vars, extract_vars, api_vars>>

---------------------------------------------------------------------------
(* _save_log and add_ai_log: the task runs whenever the event loop picks it *)

\* a variant that stores another status than the one captured
SaveLogInserts_OtherStatus ==
    /\ tasks # <<>>
    /\ store' = Append(store, [id |-> next_id] @@ [Head(tasks) EXCEPT !.status_code = 0])
    /\ next_id' = next_id + 1
    /\ tasks' = Tail(tasks)
    /\ UNCHANGED <<pc, request, headers_dict, api_key, body, request_body_str,
                   body_read, replay_installed, handler_saw, handler_calls,
                   response, chunk_idx, response_body, response_body_str, returned,
                   log>>
    /\ add_result' = "True"
    /\ UNCHANGED <<redact_vars, extract_vars, api_vars>>

\* add_ai_log, lines 57-75: the insert succeeds; the table assigns the id
SaveLogInserts ==
    /\ tasks # <<>>
    /\ store' = Append(store, [id |-> next_id] @@ Head(tasks))
    /\ next_id' = next_id + 1
    /\ tasks' = Tail(tasks)
    /\ UNCHANGED <<pc, request, headers_dict, api_key, body, request_body_str,
                   body_read, replay_installed, handler_saw, handler_calls,
                   response, chunk_idx, response_body, response_body_str, returned,
                   log>>
    /\ add_result' = "True"
    /\ UNCHANGED <<redact_vars, extract_vars, api_vars>>

\* a variant that keeps the record for another attempt
SaveLogInsertFails_Retries ==
    /\ tasks # <<>>
    /\ log' = Append(log, "Failed to add AI log")
    /\ tasks' = Append(Tail(tasks), Head(tasks))
    /\ UNCHANGED <<pc, request, headers_dict, api_key, body, request_body_str,
                   body_read, replay_installed, handler_saw, handler_calls,
                   response, chunk_idx, response_body, response_body_str, returned,
                   store, next_id>>
    /\ add_result' = "False"
    /\ UNCHANGED <<redact_vars, extract_vars, api_vars>>

\* add_ai_log, lines 76-78: database.execute raises; add_ai_log logs and
\* returns False, which _save_log ignores
SaveLogInsertFails ==
    /\ tasks # <<>>
    /\ log' = Append(log, "Failed to add AI log")
    /\ tasks' = Tail(tasks)
    /\ UNCHANGED <<pc, request, headers_dict, api_key, body, request_body_str,
                   body_read, replay_installed, handler_saw, handler_calls,
                   response, chunk_idx, response_body, response_body_str, returned,
                   store, next_id>>
    /\ add_result' = "False"
    /\ UNCHANGED <<redact_vars, extract_vars, api_vars>>

\* _save_log, lines 284-285: the import or the call raises; the exception is
\* caught and logged
SaveLogRaises ==
    /\ tasks # <<>>
    /\ log' = Append(log, "Failed to save AI log to database")
    /\ tasks' = Tail(tasks)
    /\ UNCHANGED <<pc, request, headers_dict, api_key, body, request_body_str,
                   body_read, replay_installed, handler_saw, handler_calls,
                   response, chunk_idx, response_body, response_body_str, returned,
                   store, next_id>>
    /\ UNCHANGED add_result
    /\ UNCHANGED <<redact_vars, extract_vars, api_vars>>

Next ==
    \/ Begin
    \/ PassThroughReturns
    \/ PassThroughRaises
    \/ ReadRequestBody
    \/ ReadRequestBodyFails
    \/ HandlerReturns
    \/ HandlerRaises
    \/ ReadChunk
    \/ StreamFails
    \/ ScheduleAndReturn
    \/ SaveLogInserts
    \/ SaveLogInsertFails
    \/ SaveLogRaises

Spec == Init /\ [][Next]_vars

\* asyncio.create_task hands the task to the event loop, which runs every
\* task that is ready: a pending persistence task is eventually run
LiveSpec ==
    Spec /\ WF_vars(SaveLogInserts \/ SaveLogInsertFails \/ SaveLogRaises)

---------------------------------------------------------------------------
(* The redaction check: redact_api_key applied to every credential of a    *)
(* bounded set.                                                            *)

KeyAlphabet == {"a", "."}

KeyInputs == {None} \cup StringsUpTo(KeyAlphabet, MaxKeyLen)

InitRedact ==
    /\ InitDispatch
    /\ key \in KeyInputs
    /\ masked = None
    /\ phase = "input"
    /\ InitExtractOff
    /\ InitApiOff

ApplyRedact ==
    /\ phase = "input"
    /\ masked' = redact_api_key(key)
    /\ phase' = "output"
    /\ UNCHANGED key
    /\ UNCHANGED <<dispatch_vars, extract_vars, api_vars>>

NextRedact == ApplyRedact

SpecRedact == InitRedact /\ [][NextRedact]_vars

---------------------------------------------------------------------------
(* The extraction check: one of the middleware's pure functions applied to *)
(* every input of a bounded set.                                           *)

Pending == <<"pending">>
Returned(v) == <<"returned", v>>

MaxPathTail == 1        \* most characters after a stem of a path

PathInputs ==
    LET
        \* every truncation of a monitored or excluded prefix
        PathStems ==
            UNION {{Prefix(p, n) : n \in 0..Len(p)} : p \in MONITOR_PATHS \cup EXCLUDE_PATHS}
    IN
    {pre \o stem \o tail :
        pre \in {<<>>, <<"/", "x">>},
        stem \in PathStems,
        tail \in StringsUpTo({"/", "x"}, MaxPathTail)}

MaxPathSegs == 3        \* most segments of a path with /models/
MaxTextLen == 3         \* longest text drawn from TextAlphabet

\* what json.loads makes of a request body: not JSON, JSON that is not an
\* object, an object without a model, an object with one
ModelBodies ==
    LET
        ModelValues ==
            { None, PyStr(<<>>), PyStr(<<"X">>), PyInt(0), PyInt(7), PyList(<<>>),
              PyList(<<PyStr(<<"X">>)>>) }
    IN
    { JSONDecodeError, None, PyInt(1), PyStr(<<"X">>),
      PyList(<<PyStr(<<"m", "o", "d", "e", "l">>)>>),
      PyDict(<<>>), PyDict(<< <<"prompt", PyStr(<<"X">>)>> >>) }
    \cup {PyDict(<< <<"model", v>> >>) : v \in ModelValues}
    \cup {PyDict(<< <<"stream", PyInt(1)>>, <<"model", v>> >>) : v \in ModelValues}

\* request.body() raised, returned b"", or returned a text
ModelNameInputs ==
    LET
        PathSegments ==
            { <<"/", "v", "1", "/">>, ModelsMarker, <<"m">>, <<":", "g">>, <<"/">> }
        RECURSIVE Flatten(_)
        Flatten(segs) == IF segs = <<>> THEN <<>> ELSE segs[1] \o Flatten(Tail(segs))
        ModelPaths ==
            {Flatten(segs) : segs \in UNION {[1..n -> PathSegments] : n \in 0..MaxPathSegs}}
    IN
    {[read |-> "failed", nonempty |-> FALSE, loaded |-> JSONDecodeError, path |-> p] :
        p \in ModelPaths}
    \cup
    {[read |-> "read", nonempty |-> FALSE, loaded |-> JSONDecodeError, path |-> p] :
        p \in ModelPaths}
    \cup
    {[read |-> "read", nonempty |-> TRUE, loaded |-> b, path |-> p] :
        b \in ModelBodies, p \in ModelPaths}

OpenAIUsage ==
    PyDict(<< <<"prompt_tokens", PyInt(1)>>, <<"completion_tokens", PyInt(2)>>,
              <<"total_tokens", PyInt(3)>> >>)

GeminiUsage ==
    PyDict(<< <<"promptTokenCount", PyInt(11)>>, <<"candidatesTokenCount", PyInt(12)>>,
              <<"totalTokenCount", PyInt(23)>> >>)

\* what json.loads makes of a response body
UsageBodies ==
    LET
        \* the value under "usage": objects, and values of other types
        UsageValues ==
            { OpenAIUsage, PyDict(<<>>),
              PyDict(<< <<"total_tokens", PyInt(3)>> >>),
              PyDict(<< <<"prompt_tokens", PyInt(0)>>, <<"completion_tokens", PyInt(0)>>,
                        <<"total_tokens", PyInt(0)>> >>),
              PyDict(<< <<"prompt_tokens", PyStr(<<"a">>)>> >>),
              PyDict(<< <<"cost", PyInt(9)>> >>),
              None, PyInt(4), PyStr(<<"a">>), PyList(<<PyInt(1)>>) }
        \* the value under "usageMetadata"
        UsageMetadataValues ==
            { GeminiUsage, PyDict(<<>>),
              PyDict(<< <<"totalTokenCount", PyInt(23)>> >>),
              PyDict(<< <<"promptTokenCount", PyInt(0)>>, <<"candidatesTokenCount", PyInt(0)>>,
                        <<"totalTokenCount", PyInt(0)>> >>),
              PyDict(<< <<"promptTokenCount", PyList(<<>>)>> >>),
              PyDict(<< <<"cachedContentTokenCount", PyInt(9)>> >>),
              None, PyInt(4), PyStr(<<"a">>), PyList(<<PyInt(1)>>) }
    IN
    { JSONDecodeError, None, PyInt(1), PyStr(<<"a">>), PyList(<<OpenAIUsage>>),
      PyDict(<<>>), PyDict(<< <<"id", PyStr(<<"a">>)>> >>) }
    \cup {PyDict(<< <<"usage", u>> >>) : u \in UsageValues}
    \cup {PyDict(<< <<"usageMetadata", g>> >>) : g \in UsageMetadataValues}
    \cup {PyDict(<< <<"usage", u>>, <<"usageMetadata", g>> >>) :
             u \in UsageValues, g \in UsageMetadataValues}
    \cup {PyDict(<< <<"usageMetadata", g>>, <<"usage", u>> >>) :
             u \in UsageValues, g \in UsageMetadataValues}

\* abcdefghijkl, 12 characters
Text12 == <<"a", "b", "c", "d", "e", "f", "g", "h", "i", "j", "k", "l">>

Msg(content) == PyDict(<< <<"role", PyStr(<<"u">>)>>, <<"content", content>> >>)
Content(parts) == PyDict(<< <<"parts", parts>> >>)
\* what json.loads makes of a request body: the three fields in every
\* combination of shapes, and every text under each probe
PreviewBodies ==
    LET
        TextAlphabet == {"a", " ", "\n"}
        Texts ==
            StringsUpTo(TextAlphabet, MaxTextLen)
            \cup { Text12, Text12 \o <<"m">>,
                   <<" ", "\n">> \o Text12 \o <<" ">>,
                   <<"a", "b", " ", " ">> \o SubSeq(Text12, 3, 12) \o <<"m">> }
        TextOfMessages == PyStr(<<"m">>)
        TextOfContents == PyStr(<<"c">>)
        TextOfPrompt == PyStr(<<"p">>)
        TextPart(text) ==
            PyDict(<< <<"type", PyStr(<<"t", "e", "x", "t">>)>>, <<"text", text>> >>)
        TextPartNoText == PyDict(<< <<"type", PyStr(<<"t", "e", "x", "t">>)>> >>)
        ImagePart == PyDict(<< <<"type", PyStr(<<"i", "m", "g">>)>> >>)
        MsgNoContent == PyDict(<< <<"role", PyStr(<<"u">>)>> >>)
        ContentNoParts == PyDict(<< <<"role", PyStr(<<"u">>)>> >>)
        Part(text) == PyDict(<< <<"text", text>> >>)
        InlinePart == PyDict(<< <<"inlineData", PyStr(<<"i">>)>> >>)
        \* the value under "messages": the shapes the function expects, then others
        MessagesValues ==
            { PyList(<<>>),
              PyList(<<Msg(TextOfMessages)>>),
              PyList(<<MsgNoContent, Msg(TextOfMessages)>>),
              PyList(<<Msg(PyStr(<<>>)), Msg(TextOfMessages)>>),
              PyList(<<Msg(PyList(<<TextPart(TextOfMessages)>>))>>),
              PyList(<<Msg(PyList(<<ImagePart, TextPart(TextOfMessages)>>))>>),
              PyList(<<Msg(PyList(<<ImagePart>>))>>),
              PyList(<<Msg(PyList(<<ImagePart>>)), Msg(TextOfMessages)>>),
              PyList(<<Msg(PyList(<<TextPartNoText>>))>>),
              PyList(<<MsgNoContent>>) }
            \cup
            { None, PyInt(5), TextOfMessages, Msg(TextOfMessages),
              PyList(<<TextOfMessages>>),
              PyList(<<Msg(PyInt(5))>>),
              PyList(<<Msg(PyList(<<TextPart(PyInt(1))>>))>>),
              PyList(<<Msg(PyList(<<TextPart(None)>>))>>),
              PyList(<<Msg(PyList(<<TextOfMessages>>))>>) }
        \* the value under "contents"
        ContentsValues ==
            { PyList(<<>>),
              PyList(<<Content(PyList(<<Part(TextOfContents)>>))>>),
              PyList(<<Content(PyList(<<>>)),
                       Content(PyList(<<InlinePart, Part(TextOfContents)>>))>>),
              PyList(<<ContentNoParts>>),
              PyList(<<Content(PyList(<<InlinePart>>))>>) }
            \cup
            { None, PyInt(3), PyList(<<PyInt(1)>>),
              PyList(<<Content(None)>>),
              PyList(<<Content(PyInt(0))>>),
              PyList(<<Content(TextOfContents)>>),
              PyList(<<Content(PyList(<<Part(PyInt(1))>>))>>),
              PyList(<<Content(PyList(<<TextOfContents>>))>>) }
        \* the value under "prompt"
        PromptValues == { TextOfPrompt, PyStr(<<>>), None, PyInt(3), PyList(<<TextOfPrompt>>) }
        Absent == <<"absent">>
        Field(k, v) == IF v = Absent THEN <<>> ELSE << <<k, v>> >>
    IN
    { JSONDecodeError, None, PyInt(1), TextOfPrompt, PyList(<<Msg(TextOfMessages)>>) }
    \cup
    {PyDict(Field("messages", m) \o Field("contents", c) \o Field("prompt", p)) :
        m \in MessagesValues \cup {Absent},
        c \in ContentsValues \cup {Absent},
        p \in PromptValues \cup {Absent}}
    \cup
    UNION {
      { PyDict(<< <<"messages", PyList(<<Msg(PyStr(t))>>)>>,
                  <<"contents", PyList(<<Content(PyList(<<Part(TextOfContents)>>))>>)>>,
                  <<"prompt", TextOfPrompt>> >>),
        PyDict(<< <<"messages", PyList(<<Msg(PyList(<<ImagePart, TextPart(PyStr(t))>>))>>)>>,
                  <<"prompt", TextOfPrompt>> >>),
        PyDict(<< <<"contents", PyList(<<Content(PyList(<<Part(PyStr(t))>>))>>)>>,
                  <<"prompt", TextOfPrompt>> >>),
        PyDict(<< <<"prompt", PyStr(t)>> >>) } : t \in Texts }

InitExtract ==
    /\ InitDispatch
    /\ InitRedactOff
    /\ InitApiOff
    /\ result = Pending
    /\ \/ fn = "should_monitor" /\ arg \in PathInputs
       \/ fn = "model_name" /\ arg \in ModelNameInputs
       \/ fn = "extract_model_from_body" /\ arg \in ModelBodies
       \/ fn = "extract_tokens_from_response" /\ arg \in UsageBodies
       \/ fn = "extract_content_preview" /\ arg \in PreviewBodies

ApplyShouldMonitor ==
    /\ fn = "should_monitor"
    /\ result = Pending
    /\ result' = Returned(should_monitor(arg))
    /\ UNCHANGED <<fn, arg>>
    /\ UNCHANGED <<dispatch_vars, redact_vars, api_vars>>

ApplyModelName ==
    /\ fn = "model_name"
    /\ result = Pending
    /\ result' = Returned(model_name(arg.read, arg.nonempty, arg.loaded, arg.path))
    /\ UNCHANGED <<fn, arg>>
    /\ UNCHANGED <<dispatch_vars, redact_vars, api_vars>>

ApplyExtractModelFromBody ==
    /\ fn = "extract_model_from_body"
    /\ result = Pending
    /\ result' = Returned(extract_model_from_body(arg))
    /\ UNCHANGED <<fn, arg>>
    /\ UNCHANGED <<dispatch_vars, redact_vars, api_vars>>

ApplyExtractTokens ==
    /\ fn = "extract_tokens_from_response"
    /\ result = Pending
    /\ result' = Returned(extract_tokens_from_response(arg))
    /\ UNCHANGED <<fn, arg>>
    /\ UNCHANGED <<dispatch_vars, redact_vars, api_vars>>

ApplyExtractContentPreview ==
    /\ fn = "extract_content_preview"
    /\ result = Pending
    /\ result' = Returned(extract_content_preview(arg))
    /\ UNCHANGED <<fn, arg>>
    /\ UNCHANGED <<dispatch_vars, redact_vars, api_vars>>

NextExtract ==
    \/ ApplyShouldMonitor
    \/ ApplyModelName
    \/ ApplyExtractModelFromBody
    \/ ApplyExtractTokens
    \/ ApplyExtractContentPreview

SpecExtract == InitExtract /\ [][NextExtract]_vars

---------------------------------------------------------------------------
(* The management API (ai_log_routes): one call at a time, each handler    *)
(* one action per stretch between two awaits, while a persistence task may *)
(* insert a row.  The checks of the query parameters (ge, le) run before   *)
(* the handler, verify_auth_token is the outcome `auth`.                   *)

MaxRows == 3            \* most rows of the table
MaxCalls == 2           \* most calls in a row

Tables ==
    LET
        RowList ==
            << Row(PyStr(<<"a">>), 200, 1),
               Row(PyStr(<<"A", "b">>), 500, 2),
               Row(None, 200, 3) >>
        RECURSIVE TableOf(_, _)
        \* the table whose row of id n is RowList[choice[n]], with no row of id n
        \* when choice[n] = 0 (it has been deleted)
        TableOf(choice, n) ==
            IF n = 0 THEN <<>>
            ELSE IF choice[n] = 0 THEN TableOf(choice, n - 1)
            ELSE Append(TableOf(choice, n - 1), [id |-> n] @@ RowList[choice[n]])
    IN
          {TableOf(choice, MaxRows) : choice \in [1..MaxRows -> 0..Len(RowList)]}

PendingRow == Row(PyStr(<<"a", "b">>), 200, 5)

ApiCalls ==
    LET
        Call(op, auth, limit, offset, model, status, start, end, order, log_id) ==
            [op |-> op, auth |-> auth, limit |-> limit, offset |-> offset,
             model_search |-> model, status_code_search |-> status,
             start_date |-> start, end_date |-> end,
             sort_by |-> "id", sort_order |-> order, log_id |-> log_id,
             ids |-> None, now |-> 0]
        ModelSearches == { None, <<>>, <<"a">>, <<"B">>, <<"_">>, <<"%">>, <<"c">> }
        StatusSearches == { None, <<>>, <<"2", "0", "0">>, <<"5", "0", "0">>, <<"a", "b", "c">> }
        DateBounds == { None, DateTime(2) }
        \* GET /api/ai-logs: the page varies, or the filter does
        ListCalls ==
            {Call("list", TRUE, limit, offset, None, None, None, None, order, 0) :
                limit \in {1, 2, 20, 1000}, offset \in 0..(MaxRows + 1),
                order \in {"desc", "asc"}}
            \cup
            {Call("list", TRUE, limit, offset, <<"a">>, None, None, None, "desc", 0) :
                limit \in {1, 20}, offset \in 0..1}
            \cup
            {Call("list", TRUE, 20, 0, model, status, None, None, "desc", 0) :
                model \in ModelSearches, status \in StatusSearches}
            \cup
            {Call("list", TRUE, 20, 0, None, None, start, end, "desc", 0) :
                start \in DateBounds, end \in DateBounds}
            \cup
            {Call("list", TRUE, 20, 0, <<"a">>, <<"2", "0", "0">>, DateTime(1), DateTime(2),
                  "desc", 0)}
            \cup
            {Call("list", auth, limit, offset, None, None, None, None, "desc", 0) :
                auth \in BOOLEAN, limit \in {0, 1001}, offset \in {0}}
            \cup
            {Call("list", auth, 20, 0 - 1, None, None, None, None, "desc", 0) :
                auth \in BOOLEAN}
            \cup
            {Call("list", FALSE, 20, 0, None, None, None, None, "desc", 0)}
        \* GET /api/ai-logs/{id}/details and DELETE /api/ai-logs/{id}
        IdCalls ==
            {Call(op, auth, 20, 0, None, None, None, None, "desc", log_id) :
                op \in {"details", "delete"}, auth \in BOOLEAN, log_id \in 0..(MaxRows + 1)}
        \* GET /api/ai-logs: the order varies
        SortCalls ==
            {[Call("list", TRUE, limit, 0, None, None, None, None, order, 0)
                 EXCEPT !.sort_by = sort_by] :
                limit \in {2, 20}, order \in {"asc", "ASC", "desc", "up"},
                sort_by \in {"id", "status_code", "nope", "__class__"}}
        \* DELETE /api/ai-logs with the payload {"ids": [...]} or {}
        BulkCalls ==
            {[Call("delete_many", auth, 20, 0, None, None, None, None, "desc", 0)
                 EXCEPT !.ids = ids] :
                auth \in BOOLEAN,
                ids \in {None, PyList(<<>>), PyList(<<2>>), PyList(<<1, 1, MaxRows + 1>>),
                         PyList(<<2, 3>>)}}
        \* DELETE /api/ai-logs/all
        AllCalls ==
            {Call("delete_all", auth, 20, 0, None, None, None, None, "desc", 0) :
                auth \in BOOLEAN}
        \* delete_old_ai_logs() as the scheduler calls it, at the time now
        PruneCalls ==
            {[Call("prune", TRUE, 20, 0, None, None, None, None, "desc", 0)
                 EXCEPT !.now = now] : now \in {5, 6, 7}}
    IN
            ListCalls \cup IdCalls \cup SortCalls \cup BulkCalls \cup AllCalls
                \cup PruneCalls

\* Query(.., ge=1, le=1000), Query(.., ge=0), Path(.., ge=1)
ValidCall(call) ==
    IF call.op = "list"
    THEN call.limit >= 1 /\ call.limit <= 1000 /\ call.offset >= 0
    ELSE call.op \in {"details", "delete"} => call.log_id >= 1

\* api while a call is in progress; logs is the local logs_data, count what
\* the service returned, before and after are the table as the last
\* statement of the call found and left it, prev is the call before this one
Running(call, step) ==
    [call |-> call, step |-> step, logs |-> <<>>, before |-> <<>>, after |-> <<>>,
     failed |-> FALSE, count |-> 0 - 1, round |-> api.round + 1,
     prev |-> IF api.step = "none" THEN api.prev
              ELSE [call |-> api.call, status |-> api_resp.status,
                    before |-> api.before, after |-> api.after]]

Responded(status, content) == [status |-> status, content |-> content]

InitApi ==
    /\ InitExchange
    /\ InitRedactOff
    /\ InitExtractOff
    /\ InitApiOff
    /\ log = <<>>
    /\ add_result = "none"
    /\ store \in Tables
    /\ next_id = MaxRows + 1
    /\ tasks \in {<<>>, <<PendingRow>>}

\* a variant whose handlers do not check the cookie
ApiReceives_NoGate ==
    /\ \/ api.step = "none"
       \/ /\ api.step = "done"
          /\ api.round < MaxCalls
          /\ api.call.op \in {"delete", "delete_many", "delete_all", "prune"}
          /\ api_resp.status \in {0, 204}
          /\ ~api.failed
    /\ \E call \in (IF api.step = "none" THEN ApiCalls
                    ELSE {api.call} \cup
                         {[api.call EXCEPT !.op = "details", !.log_id = log_id] :
                              log_id \in 1..(MaxRows + 1)}) :
        IF ~ValidCall(call)
        THEN /\ api' = Running(call, "done")
             /\ api_resp' = Responded(422, None)
        ELSE IF call.op = "delete_many" /\ ~Truthy(call.ids)
        THEN /\ api' = Running(call, "done")
             /\ api_resp' = Responded(400, None)
        ELSE /\ api' = Running(call, "querying")
             /\ api_resp' = NoApiResponse
    /\ UNCHANGED <<dispatch_vars, redact_vars, extract_vars>>

\* the request arrives: FastAPI validates the parameters (422), the handler
\* checks the cookie (401) and its payload (400) and calls the service, which
\* awaits the database.  After a call that deleted, the same call is made
\* again or the details of a row are asked for.
ApiReceives ==
    /\ \/ api.step = "none"
       \/ /\ api.step = "done"
          /\ api.round < MaxCalls
          /\ api.call.op \in {"delete", "delete_many", "delete_all", "prune"}
          /\ api_resp.status \in {0, 204}
          /\ ~api.failed
    /\ \E call \in (IF api.step = "none" THEN ApiCalls
                    ELSE {api.call} \cup
                         {[api.call EXCEPT !.op = "details", !.log_id = log_id] :
                              log_id \in 1..(MaxRows + 1)}) :
        IF ~ValidCall(call)
        THEN /\ api' = Running(call, "done")
             /\ api_resp' = Responded(422, None)
        ELSE IF ~call.auth
        THEN /\ api' = Running(call, "done")
             /\ api_resp' = Responded(401, None)
        ELSE IF call.op = "delete_many" /\ ~Truthy(call.ids)
        THEN /\ api' = Running(call, "done")
             /\ api_resp' = Responded(400, None)
        ELSE /\ api' = Running(call, "querying")
             /\ api_resp' = NoApiResponse
    /\ UNCHANGED <<dispatch_vars, redact_vars, extract_vars>>

\* get_ai_logs_api, line 85: get_ai_logs returns the page
\* or asc(), desc() raise on what is no column
ListFetch ==
    /\ api.step = "querying"
    /\ api.call.op = "list"
    /\ IF sort_column(api.call.sort_by) = "not a column"
       THEN /\ api' = [api EXCEPT !.step = "done"]
            /\ api_resp' = Responded(500, None)
       ELSE /\ \E logs \in get_ai_logs(store, api.call) :
                  api' = [api EXCEPT !.step = "counting", !.logs = logs,
                                     !.before = store]
            /\ UNCHANGED api_resp
    /\ UNCHANGED <<dispatch_vars, redact_vars, extract_vars>>

\* get_ai_logs_api, line 85: get_ai_logs raises
ListFetchFails ==
    /\ api.step = "querying"
    /\ api.call.op = "list"
    /\ sort_column(api.call.sort_by) # "not a column"
    /\ api' = [api EXCEPT !.step = "done", !.failed = TRUE]
    /\ api_resp' = Responded(500, None)
    /\ UNCHANGED <<dispatch_vars, redact_vars, extract_vars>>

\* get_ai_logs_api, lines 95-103: get_ai_logs_count returns the total
ListCount ==
    /\ api.step = "counting"
    /\ api' = [api EXCEPT !.step = "done", !.after = store]
    /\ api_resp' = Responded(200, [logs |-> api.logs,
                                   total |-> get_ai_logs_count(store, api.call)])
    /\ UNCHANGED <<dispatch_vars, redact_vars, extract_vars>>

\* get_ai_logs_api, line 95: get_ai_logs_count raises
ListCountFails ==
    /\ api.step = "counting"
    /\ api' = [api EXCEPT !.step = "done", !.failed = TRUE]
    /\ api_resp' = Responded(500, None)
    /\ UNCHANGED <<dispatch_vars, redact_vars, extract_vars>>

\* get_ai_log_detail_api, lines 122-126
DetailsFetch ==
    /\ api.step = "querying"
    /\ api.call.op = "details"
    /\ api' = [api EXCEPT !.step = "done", !.before = store, !.after = store]
    /\ api_resp' =
         (IF get_ai_log_details(store, api.call.log_id) = None
          THEN Responded(404, None)
          ELSE Responded(200, get_ai_log_details(store, api.call.log_id)))
    /\ UNCHANGED <<dispatch_vars, redact_vars, extract_vars>>

\* get_ai_log_detail_api, lines 129-133: get_ai_log_details raises
DetailsFails ==
    /\ api.step = "querying"
    /\ api.call.op = "details"
    /\ api' = [api EXCEPT !.step = "done", !.failed = TRUE]
    /\ api_resp' = Responded(500, None)
    /\ UNCHANGED <<dispatch_vars, redact_vars, extract_vars>>

\* delete_ai_log_api, lines 195-201: delete_ai_log_by_id executes the delete
\* and returns True
DeleteOne ==
    /\ api.step = "querying"
    /\ api.call.op = "delete"
    /\ store' = delete_where_id(store, api.call.log_id)
    /\ api' = [api EXCEPT !.step = "done", !.before = store,
                          !.after = delete_where_id(store, api.call.log_id)]
    /\ api_resp' = Responded(204, None)
    /\ UNCHANGED <<pc, request, headers_dict, api_key, body, request_body_str,
                   body_read, replay_installed, handler_saw, handler_calls,
                   response, chunk_idx, response_body, response_body_str, returned,
                   tasks, next_id, log, add_result>>
    /\ UNCHANGED <<redact_vars, extract_vars>>

\* delete_ai_log_api, lines 195-199: the delete raises, delete_ai_log_by_id
\* logs and returns False, and the handler answers that the id was not found
DeleteOneFails ==
    /\ api.step = "querying"
    /\ api.call.op = "delete"
    /\ log' = Append(log, "Failed to delete AI log ID")
    /\ api' = [api EXCEPT !.step = "done", !.failed = TRUE]
    /\ api_resp' = Responded(404, None)
    /\ UNCHANGED <<pc, request, headers_dict, api_key, body, request_body_str,
                   body_read, replay_installed, handler_saw, handler_calls,
                   response, chunk_idx, response_body, response_body_str, returned,
                   tasks, store, next_id, add_result>>
    /\ UNCHANGED <<redact_vars, extract_vars>>

\* delete_ai_logs_bulk_api, lines 153-155: delete_ai_logs_by_ids executes the
\* delete and returns len(log_ids)
DeleteMany ==
    /\ api.step = "querying"
    /\ api.call.op = "delete_many"
    /\ store' = delete_where_id_in(store, api.call.ids[2])
    /\ api' = [api EXCEPT !.step = "done", !.before = store,
                          !.after = delete_where_id_in(store, api.call.ids[2]),
                          !.count = Len(api.call.ids[2])]
    /\ api_resp' = Responded(204, None)
    /\ UNCHANGED <<pc, request, headers_dict, api_key, body, request_body_str,
                   body_read, replay_installed, handler_saw, handler_calls,
                   response, chunk_idx, response_body, response_body_str, returned,
                   tasks, next_id, log, add_result>>
    /\ UNCHANGED <<redact_vars, extract_vars>>

\* delete_ai_logs_bulk_api, lines 156-160: delete_ai_logs_by_ids raises
DeleteManyFails ==
    /\ api.step = "querying"
    /\ api.call.op = "delete_many"
    /\ api' = [api EXCEPT !.step = "done", !.failed = TRUE]
    /\ api_resp' = Responded(500, None)
    /\ UNCHANGED <<dispatch_vars, redact_vars, extract_vars>>

\* delete_all_ai_logs, lines 252-253: the rows are counted
DeleteAllCount ==
    /\ api.step = "querying"
    /\ api.call.op = "delete_all"
    /\ api' = [api EXCEPT !.step = "deleting", !.count = Len(store)]
    /\ UNCHANGED <<api_resp, dispatch_vars, redact_vars, extract_vars>>

\* delete_all_ai_logs, lines 256-260, and delete_all_ai_logs_api, lines
\* 174-176: every row is deleted and the count of before is returned
DeleteAllDelete ==
    /\ api.step = "deleting"
    /\ api.call.op = "delete_all"
    /\ store' = <<>>
    /\ api' = [api EXCEPT !.step = "done", !.before = store, !.after = <<>>]
    /\ api_resp' = Responded(204, None)
    /\ UNCHANGED <<pc, request, headers_dict, api_key, body, request_body_str,
                   body_read, replay_installed, handler_saw, handler_calls,
                   response, chunk_idx, response_body, response_body_str, returned,
                   tasks, next_id, log, add_result>>
    /\ UNCHANGED <<redact_vars, extract_vars>>

\* delete_all_ai_logs_api, lines 177-181: one of the two statements raises
DeleteAllFails ==
    /\ api.step \in {"querying", "deleting"}
    /\ api.call.op = "delete_all"
    /\ api' = [api EXCEPT !.step = "done", !.failed = TRUE]
    /\ api_resp' = Responded(500, None)
    /\ UNCHANGED <<dispatch_vars, redact_vars, extract_vars>>

\* delete_old_ai_logs, lines 277-287: the rows older than the cutoff are
\* counted; with none of them the call returns 0
PruneCount ==
    /\ api.step = "querying"
    /\ api.call.op = "prune"
    /\ LET cutoff == cutoff_date(api.call.now, AI_LOG_RETENTION_DAYS)
           count == Len(store) - Len(delete_where_older(store, cutoff))
       IN api' = IF count = 0
                 THEN [api EXCEPT !.step = "done", !.count = 0, !.before = store,
                                  !.after = store]
                 ELSE [api EXCEPT !.step = "deleting", !.count = count]
    /\ UNCHANGED <<api_resp, dispatch_vars, redact_vars, extract_vars>>

\* delete_old_ai_logs, lines 290-294: the rows older than the cutoff are
\* deleted and the count of before is returned
PruneDelete ==
    /\ api.step = "deleting"
    /\ api.call.op = "prune"
    /\ LET cutoff == cutoff_date(api.call.now, AI_LOG_RETENTION_DAYS)
       IN /\ store' = delete_where_older(store, cutoff)
          /\ api' = [api EXCEPT !.step = "done", !.before = store,
                                !.after = delete_where_older(store, cutoff)]
    /\ UNCHANGED api_resp
    /\ UNCHANGED <<pc, request, headers_dict, api_key, body, request_body_str,
                   body_read, replay_installed, handler_saw, handler_calls,
                   response, chunk_idx, response_body, response_body_str, returned,
                   tasks, next_id, log, add_result>>
    /\ UNCHANGED <<redact_vars, extract_vars>>

\* delete_old_ai_logs, lines 295-297: one of the two statements raises, the
\* error is logged and raised again
PruneFails ==
    /\ api.step \in {"querying", "deleting"}
    /\ api.call.op = "prune"
    /\ log' = Append(log, "Failed to delete old AI logs")
    /\ api' = [api EXCEPT !.step = "done", !.failed = TRUE]
    /\ UNCHANGED api_resp
    /\ UNCHANGED <<pc, request, headers_dict, api_key, body, request_body_str,
                   body_read, replay_installed, handler_saw, handler_calls,
                   response, chunk_idx, response_body, response_body_str, returned,
                   tasks, store, next_id, add_result>>
    /\ UNCHANGED <<redact_vars, extract_vars>>

NextApi ==
    \/ ApiReceives
    \/ ListFetch
    \/ ListFetchFails
    \/ ListCount
    \/ ListCountFails
    \/ DetailsFetch
    \/ DetailsFails
    \/ DeleteOne
    \/ DeleteOneFails
    \/ DeleteMany
    \/ DeleteManyFails
    \/ DeleteAllCount
    \/ DeleteAllDelete
    \/ DeleteAllFails
    \/ PruneCount
    \/ PruneDelete
    \/ PruneFails
    \/ SaveLogInserts

SpecApi == InitApi /\ [][NextApi]_vars

---------------------------------------------------------------------------
(* Properties *)

RECURSIVE ConcatAll(_)
\* the in-order concatenation of a sequence of chunks
ConcatAll(cs) == IF cs = <<>> THEN <<>> ELSE RCat(cs[1], ConcatAll(Tail(cs)))

\* the records handed to the store: the arguments of the pending tasks and
\* the rows inserted
Handed == {tasks[i] : i \in 1..Len(tasks)} \cup {store[i] : i \in 1..Len(store)}

Count(hs, p) == Cardinality({i \in 1..Len(hs) : hs[i] = p})

\* C1: whenever dispatch has returned a response for a monitored exchange, its
\* body is the in-order concatenation of the chunks of the handler's
\* response, for a single buffer and for a stream, before the persistence task
\* has run and after it has succeeded, returned failure or raised.
C1_BodyBytesPreserved ==
    returned.kind = "response" => returned.body = ConcatAll(response.chunks)

\* a streamed response of two chunks has been returned and the persistence
\* task has raised
C1_Witness ==
    /\ returned.kind = "response"
    /\ response.streaming
    /\ Len(response.chunks) = 2
    /\ response.chunks[1] # response.chunks[2]
    /\ tasks = <<>>
    /\ log = <<"Failed to save AI log to database">>

\* C2: the status code and the headers (every name/value pair, repeated names
\* included) of the returned response are those of the handler's response.
\* Stated by what identity requires at the least: the status is the handler's
\* and every pair of the handler's response is returned as often as it occurs.
C2_StatusAndHeadersPreserved ==
    returned.kind = "response" =>
        /\ returned.status = response.status
        /\ \A i \in 1..Len(response.headers) :
              Count(returned.headers, response.headers[i])
                  = Count(response.headers, response.headers[i])

\* C3: when the middleware has read the request body successfully, the handler
\* reads exactly the bytes the client sent.
C3_RequestBodyReplayed ==
    (body_read = "read" /\ handler_saw # None) =>
        /\ handler_saw = request.body
        /\ body = request.body

\* the handler has returned after reading a replayed body longer than
\* MAX_BODY_LENGTH
C3_Witness ==
    /\ pc = "CapturingResponse"
    /\ body_read = "read"
    /\ RLen(request.body) > MAX_BODY_LENGTH
    /\ handler_saw = request.body

\* C4: the step that schedules the persistence task is the step that returns
\* the response, so dispatch never waits for the task; and a step in which the
\* task runs changes nothing the caller sees: when the record is not inserted
\* the only effect is one more message in the log.
C4_ReturnNeverWaits ==
    [][ /\ (Len(tasks') > Len(tasks)) =>
             (pc' = "Done" /\ returned'.kind = "response")
        /\ (Len(tasks') < Len(tasks)) =>
             /\ UNCHANGED <<pc, returned>>
             /\ (store' = store => Len(log') = Len(log) + 1) ]_vars

\* the response has been returned while the append is still pending
C4_Witness ==
    /\ pc = "Done"
    /\ returned.kind = "response"
    /\ Len(tasks) = 1
    /\ store = <<>>

\* C5: a failure while reading the request body or the response body is never
\* raised to the caller (the only exception a caller sees is the handler's
\* own), and the record of an exchange whose request body could not be read
\* stores the placeholder.
C5_BodyReadFailureNotRaised ==
    /\ returned.kind = "exception" => returned.source = "handler"
    /\ body_read = "failed" =>
           \A rec \in Handed : rec.request_body = truncate_body(ErrorPlaceholder)

\* C6: every body handed to the store has at most MAX_BODY_LENGTH characters;
\* a longer original is stored ending with the marker that states its length,
\* a shorter one is stored unchanged.
C6_StoredBodiesBounded ==
    \A rec \in Handed :
        /\ RLen(rec.request_body) <= MAX_BODY_LENGTH
        /\ RLen(rec.response_body) <= MAX_BODY_LENGTH
        /\ IF RLen(request_body_str) > MAX_BODY_LENGTH
           THEN REndsWith(rec.request_body, TruncationMarker(RLen(request_body_str)))
           ELSE rec.request_body = request_body_str
        /\ IF RLen(response_body_str) > MAX_BODY_LENGTH
           THEN REndsWith(rec.response_body, TruncationMarker(RLen(response_body_str)))
           ELSE rec.response_body = response_body_str

CredentialHeaders == {"authorization", "x-api-key"}

\* C7: in every record handed to the store, apiKey is null or the redacted
\* form of the extracted credential and never the raw credential, and every
\* stored authorization or x-api-key header value is the redacted form of a
\* received value of that header and never the raw value.  (An empty header
\* value carries no credential and is allowed to be stored as it is.)
C7_CredentialsRedacted ==
    \A rec \in Handed :
        /\ rec.api_key \in {None, redact_api_key(api_key)}
        /\ api_key # None => rec.api_key # api_key
        /\ \A i \in 1..Len(rec.request_headers.object) :
            LET k == rec.request_headers.object[i][1]
                v == rec.request_headers.object[i][2]
            IN lower(k) \in CredentialHeaders =>
                 \E j \in 1..Len(request.headers) :
                    /\ request.headers[j][1] = k
                    /\ \/ request.headers[j][2] = <<>> /\ v = <<>>
                       \/ /\ v = redact_api_key(request.headers[j][2])
                          /\ v # request.headers[j][2]

\* C8: when the request carries Authorization: Bearer <token>, the credential
\* taken is the text after "Bearer ", the stored apiKey is redact(<token>),
\* and neither the prefix nor the raw token is stored as apiKey.  Stated for
\* the requests on which that header is the only one carrying a credential.
C8_BearerTokenRedacted ==
    \A rec \in Handed :
        \A j \in 1..Len(request.headers) :
            (/\ request.headers[j][1] = "authorization"
             /\ StartsWith(request.headers[j][2], Bearer)
             /\ \A i \in 1..Len(request.headers) :
                   i # j => lower(request.headers[i][1]) \notin CredentialHeaders) =>
                LET token == From(request.headers[j][2], 7)
                IN /\ api_key = token
                   /\ rec.api_key = redact_api_key(token)
                   /\ rec.api_key # token
                   /\ ~StartsWith(rec.api_key, Bearer)

\* C9: redact returns null for null or empty input, *** for 1..6 characters,
\* first 3 + ... + last 3 for 7..12 characters, first 6 + ... + last 6 above.
C9_RedactRules ==
    phase = "output" =>
        masked =
          (IF key = None THEN None
           ELSE LET n == Len(key)
                    first(m) == [i \in 1..m |-> key[i]]
                    last(m) == [i \in 1..m |-> key[n - m + i]]
                IN IF n = 0 THEN None
                   ELSE IF n <= 6 THEN <<"*", "*", "*">>
                   ELSE IF n <= 12 THEN first(3) \o <<".", ".", ".">> \o last(3)
                   ELSE first(6) \o <<".", ".", ".">> \o last(6))

\* a 12-character credential has been redacted to 3 + ... + 3 characters
C9_Witness ==
    /\ phase = "output"
    /\ key # None
    /\ Len(key) = 12
    /\ Len(masked) = 9
    /\ key[4] = "." /\ key[9] = "."

\* C10: for a secret s of more than 6 characters, redact(s) does not contain s.
C10_RedactHidesSecret ==
    (phase = "output" /\ key # None /\ Len(key) > 6) => ~Contains(masked, key)

\* C11: the request headers of every record handed to the store are headers
\* whose lower-cased name is content-type, authorization, user-agent or
\* x-api-key, and no other header of the request is among them.
C11_OnlyAllowListedHeadersStored ==
    \A rec \in Handed :
        /\ \A i \in 1..Len(rec.request_headers.object) :
              lower(rec.request_headers.object[i][1])
                  \in {"content-type", "authorization", "user-agent", "x-api-key"}
        /\ \A j \in 1..Len(request.headers) :
              lower(request.headers[j][1])
                  \notin {"content-type", "authorization", "user-agent", "x-api-key"}
                => ~HasKey(rec.request_headers.object, request.headers[j][1])

\* a request with a cookie and a content-type has been recorded, with the
\* content-type only
C11_Witness ==
    /\ \E j \in 1..Len(request.headers) : request.headers[j][1] = "cookie"
    /\ \E rec \in Handed : rec.request_headers.object = <<ContentTypeHeader>>

\* C12: should_monitor(path) is true exactly when the path starts with one of
\* /v1/, /gemini/, /openai/, /hf/, /vertex-express/ and with none of /static/,
\* /health, /favicon.ico; a path that starts with an excluded prefix is not
\* monitored.
C12_ShouldMonitorByPrefix ==
    LET starts(path, p) ==
            /\ Len(path) >= Len(p)
            /\ \A i \in 1..Len(p) : path[i] = p[i]
        monitored(path) ==
            \/ starts(path, <<"/", "v", "1", "/">>)
            \/ starts(path, <<"/", "g", "e", "m", "i", "n", "i", "/">>)
            \/ starts(path, <<"/", "o", "p", "e", "n", "a", "i", "/">>)
            \/ starts(path, <<"/", "h", "f", "/">>)
            \/ starts(path, <<"/", "v", "e", "r", "t", "e", "x", "-",
                              "e", "x", "p", "r", "e", "s", "s", "/">>)
        excluded(path) ==
            \/ starts(path, <<"/", "s", "t", "a", "t", "i", "c", "/">>)
            \/ starts(path, <<"/", "h", "e", "a", "l", "t", "h">>)
            \/ starts(path, <<"/", "f", "a", "v", "i", "c", "o", "n", ".", "i", "c", "o">>)
    IN (fn = "should_monitor" /\ result # Pending) =>
          /\ result[2] = (monitored(arg) /\ ~excluded(arg))
          /\ excluded(arg) => result[2] = FALSE

\* /hf/x has been found monitored
C12_Witness ==
    /\ fn = "should_monitor"
    /\ arg = <<"/", "h", "f", "/", "x">>
    /\ result = Returned(TRUE)

\* /healthx has been found not monitored
C12_WitnessExcluded ==
    /\ fn = "should_monitor"
    /\ arg = <<"/", "h", "e", "a", "l", "t", "h", "x">>
    /\ result = Returned(FALSE)

C14_ProviderUsageWins ==
    LET member(d, k) == \E i \in 1..Len(d[2]) : d[2][i][1] = k
        value(d, k) ==
            IF member(d, k)
            THEN d[2][CHOOSE i \in 1..Len(d[2]) : d[2][i][1] = k][2]
            ELSE None
        object(d, k) == member(d, k) /\ value(d, k) # None /\ value(d, k)[1] = "dict"
        openai(u) == <<value(u, "prompt_tokens"), value(u, "completion_tokens"),
                       value(u, "total_tokens")>>
        provider(g) == <<value(g, "promptTokenCount"), value(g, "candidatesTokenCount"),
                         value(g, "totalTokenCount")>>
    IN (/\ fn = "extract_tokens_from_response" /\ result # Pending
        /\ arg # JSONDecodeError /\ arg # None /\ arg[1] = "dict") =>
          /\ (object(arg, "usage") /\ object(arg, "usageMetadata")) =>
                 result[2] = provider(value(arg, "usageMetadata"))
          /\ (object(arg, "usage") /\ ~member(arg, "usageMetadata")) =>
                 result[2] = openai(value(arg, "usage"))
          /\ (object(arg, "usageMetadata") /\ ~member(arg, "usage")) =>
                 result[2] = provider(value(arg, "usageMetadata"))

\* C14 amended: for a body that holds both a non-empty usage object and a
\* non-empty usageMetadata object the three counters are usageMetadata's; when
\* one of the two is a non-empty object and the other is absent or an empty
\* object, they are the non-empty object's.
C14_NonEmptyProviderUsageWins ==
    LET member(d, k) == \E i \in 1..Len(d[2]) : d[2][i][1] = k
        value(d, k) ==
            IF member(d, k)
            THEN d[2][CHOOSE i \in 1..Len(d[2]) : d[2][i][1] = k][2]
            ELSE None
        filled(d, k) ==
            /\ member(d, k) /\ value(d, k) # None
            /\ value(d, k)[1] = "dict" /\ Len(value(d, k)[2]) > 0
        void(d, k) == ~member(d, k) \/ value(d, k) = PyDict(<<>>)
        openai(u) == <<value(u, "prompt_tokens"), value(u, "completion_tokens"),
                       value(u, "total_tokens")>>
        provider(g) == <<value(g, "promptTokenCount"), value(g, "candidatesTokenCount"),
                         value(g, "totalTokenCount")>>
    IN (/\ fn = "extract_tokens_from_response" /\ result # Pending
        /\ arg # JSONDecodeError /\ arg # None /\ arg[1] = "dict") =>
          /\ (filled(arg, "usage") /\ filled(arg, "usageMetadata")) =>
                 result[2] = provider(value(arg, "usageMetadata"))
          /\ (filled(arg, "usage") /\ void(arg, "usageMetadata")) =>
                 result[2] = openai(value(arg, "usage"))
          /\ (filled(arg, "usageMetadata") /\ void(arg, "usage")) =>
                 result[2] = provider(value(arg, "usageMetadata"))

\* a body with both objects has given usageMetadata's counters
C14_Witness ==
    /\ fn = "extract_tokens_from_response"
    /\ arg = PyDict(<< <<"usage", OpenAIUsage>>, <<"usageMetadata", GeminiUsage>> >>)
    /\ result = Returned(<<PyInt(11), PyInt(12), PyInt(23)>>)

\* C15: on a body that is not JSON or not a JSON object each of the three
\* extractors returns 'not found' (null, three nulls for the usage), and
\* whatever the types of the fields of an object, what an extractor returns is
\* null or a value of the kind it extracts: a string for the model and for the
\* preview, integers for the counters.
C15_ExtractorsDefensive ==
    LET object == arg # JSONDecodeError /\ arg # None /\ arg[1] = "dict"
        null_or(kind, v) == v = None \/ v[1] = kind
    IN /\ (fn = "extract_model_from_body" /\ result # Pending) =>
              /\ null_or("str", result[2])
              /\ ~object => result[2] = None
       /\ (fn = "extract_tokens_from_response" /\ result # Pending) =>
              /\ \A k \in 1..3 : null_or("int", result[2][k])
              /\ ~object => result[2] = <<None, None, None>>
       /\ (fn = "extract_content_preview" /\ result # Pending) =>
              /\ null_or("str", result[2])
              /\ ~object => result[2] = None

NoText == <<"no text">>

RECURSIVE Collapsed(_, _)
\* s with every run of whitespace replaced by one space (after_ws: the
\* character before s was whitespace)
Collapsed(s, after_ws) ==
    IF s = <<>> THEN <<>>
    ELSE IF s[1] \in {" ", "\n", "\t"}
         THEN (IF after_ws THEN <<>> ELSE <<" ">>) \o Collapsed(Tail(s), TRUE)
         ELSE <<s[1]>> \o Collapsed(Tail(s), FALSE)

\* t without a space at its start and at its end
Trimmed(t) ==
    LET a == IF t # <<>> /\ t[1] = " " THEN 2 ELSE 1
        b == IF Len(t) >= a /\ t[Len(t)] = " " THEN Len(t) - 1 ELSE Len(t)
    IN [k \in 1..(b - a + 1) |-> t[a + k - 1]]

\* the first n characters of t
FirstChars(t, n) == [k \in 1..(IF Len(t) < n THEN Len(t) ELSE n) |-> t[k]]

IsObject(v) == v # None /\ v # JSONDecodeError /\ v[1] = "dict"
IsArray(v) == v # None /\ v # JSONDecodeError /\ v[1] = "list"
IsString(v) == v # None /\ v # JSONDecodeError /\ v[1] = "str"
Member(d, k) == \E i \in 1..Len(d[2]) : d[2][i][1] = k
ValueOf(d, k) == d[2][CHOOSE i \in 1..Len(d[2]) : d[2][i][1] = k][2]

\* the least index of xs whose element has a text, 0 when there is none
FirstWith(xs, text(_)) ==
    IF \E i \in 1..Len(xs) : text(xs[i]) # NoText
    THEN CHOOSE i \in 1..Len(xs) :
            text(xs[i]) # NoText /\ \A j \in 1..(i - 1) : text(xs[j]) = NoText
    ELSE 0

\* a part of a message's content list: a text part gives its text ("" when
\* it has none)
TextOfItem(item) ==
    IF IsObject(item) /\ Member(item, "type")
          /\ ValueOf(item, "type") = <<"str", <<"t", "e", "x", "t">>>>
    THEN IF ~Member(item, "text") THEN <<>>
         ELSE IF IsString(ValueOf(item, "text")) THEN ValueOf(item, "text")[2]
         ELSE NoText
    ELSE NoText

\* a message: its content when that is a non-empty string, the first text
\* part when it is a list
TextOfMessage(msg) ==
    IF IsObject(msg) /\ Member(msg, "content")
    THEN LET content == ValueOf(msg, "content")
         IN IF IsString(content) /\ content[2] # <<>> THEN content[2]
            ELSE IF IsArray(content) /\ FirstWith(content[2], TextOfItem) # 0
                 THEN TextOfItem(content[2][FirstWith(content[2], TextOfItem)])
            ELSE NoText
    ELSE NoText

\* a part of a Gemini content: its text
TextOfPart(part) ==
    IF IsObject(part) /\ Member(part, "text") /\ IsString(ValueOf(part, "text"))
    THEN ValueOf(part, "text")[2]
    ELSE NoText

\* a Gemini content: the first text of its parts
TextOfContent(c) ==
    IF IsObject(c) /\ Member(c, "parts") /\ IsArray(ValueOf(c, "parts"))
          /\ FirstWith(ValueOf(c, "parts")[2], TextOfPart) # 0
    THEN LET parts == ValueOf(c, "parts")[2]
         IN TextOfPart(parts[FirstWith(parts, TextOfPart)])
    ELSE NoText

\* the text the three probes find in a body, in their order of priority
FirstText(d) ==
    IF ~IsObject(d) THEN NoText
    ELSE LET probe(k, text(_)) ==
                 IF Member(d, k) /\ IsArray(ValueOf(d, k))
                       /\ FirstWith(ValueOf(d, k)[2], text) # 0
                 THEN text(ValueOf(d, k)[2][FirstWith(ValueOf(d, k)[2], text)])
                 ELSE NoText
             prompt ==
                 IF Member(d, "prompt") /\ IsString(ValueOf(d, "prompt"))
                       /\ ValueOf(d, "prompt")[2] # <<>>
                 THEN ValueOf(d, "prompt")[2]
                 ELSE NoText
         IN IF probe("messages", TextOfMessage) # NoText
            THEN probe("messages", TextOfMessage)
            ELSE IF probe("contents", TextOfContent) # NoText
            THEN probe("contents", TextOfContent)
            ELSE prompt

\* a body whose probed fields, where present, have the shapes the probes
\* expect: messages a list of objects whose content is a string or a list of
\* objects (the text of a text part a string), contents a list of objects
\* whose parts are a list of objects (every text a string), prompt a string
WellShaped(d) ==
    LET texts_are_strings(xs) ==
            \A i \in 1..Len(xs) :
               /\ IsObject(xs[i])
               /\ Member(xs[i], "text") => IsString(ValueOf(xs[i], "text"))
        message(m) ==
            /\ IsObject(m)
            /\ Member(m, "content") =>
                  \/ IsString(ValueOf(m, "content"))
                  \/ /\ IsArray(ValueOf(m, "content"))
                     /\ texts_are_strings(ValueOf(m, "content")[2])
        content(c) ==
            /\ IsObject(c)
            /\ Member(c, "parts") =>
                  /\ IsArray(ValueOf(c, "parts"))
                  /\ texts_are_strings(ValueOf(c, "parts")[2])
    IN /\ IsObject(d)
       /\ Member(d, "messages") =>
             /\ IsArray(ValueOf(d, "messages"))
             /\ \A i \in 1..Len(ValueOf(d, "messages")[2]) :
                   message(ValueOf(d, "messages")[2][i])
       /\ Member(d, "contents") =>
             /\ IsArray(ValueOf(d, "contents"))
             /\ \A i \in 1..Len(ValueOf(d, "contents")[2]) :
                   content(ValueOf(d, "contents")[2][i])
       /\ Member(d, "prompt") => IsString(ValueOf(d, "prompt"))

\* C16 as stated: the preview is the first text found by the probes in their
\* order (messages, contents, prompt), its runs of whitespace collapsed to
\* single spaces, cut to 12 characters; it is null when no probe finds a text.
C16_PreviewByPriority ==
    (fn = "extract_content_preview" /\ result # Pending) =>
        /\ result[2] # None => Len(result[2][2]) <= 12
        /\ result[2] =
             (IF FirstText(arg) = NoText THEN None
              ELSE <<"str", FirstChars(Collapsed(FirstText(arg), FALSE), 12)>>)

\* C16 amended: the preview never exceeds 12 characters and is null when no
\* probe finds a text; for a body whose probed fields have the expected
\* shapes it is the first text found by the probes in their order, its
\* leading and trailing whitespace dropped and its other runs of whitespace
\* collapsed to single spaces, cut to 12 characters.
C16_PreviewByPriorityWellShaped ==
    (fn = "extract_content_preview" /\ result # Pending) =>
        /\ result[2] # None => Len(result[2][2]) <= 12
        /\ FirstText(arg) = NoText => result[2] = None
        /\ WellShaped(arg) =>
              result[2] =
                (IF FirstText(arg) = NoText THEN None
                 ELSE <<"str", FirstChars(Trimmed(Collapsed(FirstText(arg), FALSE)), 12)>>)

\* a body with a text under each probe, the one under messages of 15
\* characters with a double space: the preview is its first 12 after collapse
C16_Witness ==
    /\ fn = "extract_content_preview"
    /\ arg # JSONDecodeError /\ arg # None /\ arg[1] = "dict"
    /\ Len(arg[2]) = 3
    /\ arg[2][1] = <<"messages",
                     PyList(<<Msg(PyStr(<<"a", "b", " ", " ">> \o SubSeq(Text12, 3, 12)
                                          \o <<"m">>))>>)>>
    /\ result = Returned(PyStr(<<"a", "b", " ">> \o SubSeq(Text12, 3, 11)))

\* C17: add_ai_log never raises: when the insert fails it returns False, and
\* from then on the table is as it was before the call, the record is in no
\* pending task and the only trace is the message in the log.
C17_FailedAppendDiscarded ==
    /\ add_result \in {"none", "True", "False"}
    /\ add_result = "False" =>
          /\ store = <<>>
          /\ tasks = <<>>
          /\ log = <<"Failed to add AI log">>

\* the response has been returned and the insert of its record has failed
C17_Witness ==
    /\ add_result = "False"
    /\ pc = "Done"
    /\ returned.kind = "response"
    /\ store = <<>>

\* the text s occurs in the text t, letter case ignored
OccursIgnoringCase(s, t) ==
    LET same(a, b) ==
            \/ a = b
            \/ {a, b} \in {{"a", "A"}, {"b", "B"}, {"c", "C"}}
    IN \E k \in 0..(Len(t) - Len(s)) : \A i \in 1..Len(s) : same(s[i], t[k + i])

\* the number a text of decimal digits denotes, -1 for any other text
NumberOf(s) ==
    LET digit(c) == CASE c = "0" -> 0 [] c = "1" -> 1 [] c = "2" -> 2 [] c = "3" -> 3
                      [] c = "4" -> 4 [] c = "5" -> 5 [] c = "6" -> 6 [] c = "7" -> 7
                      [] c = "8" -> 8 [] c = "9" -> 9 [] OTHER -> 0 - 1
        RECURSIVE value(_)
        value(n) == IF n = 0 THEN 0 ELSE 10 * value(n - 1) + digit(s[n])
    IN IF Len(s) = 0 \/ \E i \in 1..Len(s) : digit(s[i]) < 0 THEN 0 - 1
       ELSE value(Len(s))

\* the row satisfies every filter the call supplies: the model name contains
\* model_search whatever the case of the letters, the status code is the
\* number status_code_search denotes, the request time lies within the
\* bounds, themselves included.  A filter that is missing, empty or (for the
\* status code) not a number excludes nothing.
Satisfies(row, call) ==
    /\ (call.model_search # None /\ Len(call.model_search) > 0) =>
          /\ row.model_name # None
          /\ OccursIgnoringCase(call.model_search, row.model_name[2])
    /\ (call.status_code_search # None /\ NumberOf(call.status_code_search) >= 0) =>
          row.status_code = NumberOf(call.status_code_search)
    /\ call.start_date # None => row.request_time[2] >= call.start_date[2]
    /\ call.end_date # None => row.request_time[2] <= call.end_date[2]

\* the ids of the rows of the table that satisfy the filters of the call
Matching(table, call) ==
    {table[i].id : i \in {j \in 1..Len(table) : Satisfies(table[j], call)}}

\* a list call has been answered and no row was inserted or deleted between
\* its two queries
ListAnswered ==
    /\ api.step = "done"
    /\ api.call.op = "list"
    /\ api_resp.status = 200
    /\ api.before = api.after

\* the page holds min(limit, max(0, M - offset)) records and the total is M,
\* M being the number of the rows that satisfy the filters of the call
PageSizeAndTotal ==
    LET M == Cardinality(Matching(api.before, api.call))
        rest == IF M - api.call.offset > 0 THEN M - api.call.offset ELSE 0
    IN /\ api.call.limit >= 1 /\ api.call.limit <= 1000 /\ api.call.offset >= 0
       /\ Len(api_resp.content.logs)
             = (IF api.call.limit < rest THEN api.call.limit ELSE rest)
       /\ api_resp.content.total = M

\* C18: a list call with limit in [1, 1000] and offset >= 0 on a table of
\* which M rows match the filter, with no mutation between its queries,
\* returns min(limit, max(0, M - offset)) records and total = M.
C18_PageSizeAndTotal == ListAnswered => PageSizeAndTotal

\* C18 for the calls whose model_search holds none of the LIKE wildcards
\* % and _ : the page size and the total are as stated.
C18_PageSizeAndTotalNoWildcard ==
    (/\ ListAnswered
     /\ api.call.model_search = None
          \/ \A i \in 1..Len(api.call.model_search) :
                api.call.model_search[i] \notin {"%", "_"}) => PageSizeAndTotal

\* limit 2 and offset 1 on three rows: two records, total 3
C18_Witness ==
    /\ ListAnswered
    /\ api.call.limit = 2 /\ api.call.offset = 1
    /\ Len(api.before) = 3
    /\ Len(api_resp.content.logs) = 2
    /\ api_resp.content.total = 3

\* C19: the records of a list call are stored records that satisfy every
\* supplied filter, all of them when the page is large enough, and the total
\* is the number of the stored records that satisfy every supplied filter.
C19_FilteredExactly ==
    ListAnswered =>
        LET ids == {api_resp.content.logs[i].id : i \in 1..Len(api_resp.content.logs)}
            M == Matching(api.before, api.call)
        IN /\ ids \subseteq M
           /\ (api.call.offset = 0 /\ api.call.limit >= Cardinality(M)) => ids = M
           /\ api_resp.content.total = Cardinality(M)

\* C20: for an authenticated caller and a store that does not fail, details
\* and delete of an id that is not in the table answer 404 and leave the table
\* as it is; of an id that is in the table, details answers 200 with the whole
\* row and delete answers 204 and removes that row and no other.
C20_ByIdOutcome ==
    (/\ api.step = "done"
     /\ api.call.op \in {"details", "delete"}
     /\ api.call.auth
     /\ api.call.log_id >= 1
     /\ ~api.failed) =>
        LET present == \E i \in 1..Len(api.before) : api.before[i].id = api.call.log_id
            others == {i \in 1..Len(api.before) : api.before[i].id # api.call.log_id}
        IN IF ~present
           THEN api_resp.status = 404 /\ api.after = api.before
           ELSE IF api.call.op = "details"
           THEN /\ api_resp.status = 200
                /\ api.after = api.before
                /\ \E i \in 1..Len(api.before) : api_resp.content = api.before[i]
                /\ api_resp.content.id = api.call.log_id
           ELSE /\ api_resp.status = 204
                /\ Len(api.after) = Cardinality(others)
                /\ \A i \in others : \E j \in 1..Len(api.after) : api.after[j] = api.before[i]

\* the ids of the rows of a table
IdsOf(table) == {table[i].id : i \in 1..Len(table)}

\* the call in progress is a bulk delete that the service carried out
BulkDeleted ==
    /\ api.step = "done"
    /\ api.call.op = "delete_many"
    /\ api_resp.status = 204
    /\ ~api.failed

\* the call before this one was a bulk delete that the service carried out,
\* and nothing changed the table since
AfterBulkDelete ==
    /\ api.step = "done"
    /\ ~api.failed
    /\ api.prev.call.op = "delete_many"
    /\ api.prev.status = 204
    /\ api.before = api.prev.after

TimesOf(table) == {table[i].request_time[2] : i \in 1..Len(table)}

\* the pruner has run to its end
Pruned ==
    /\ api.step = "done"
    /\ api.call.op = "prune"
    /\ ~api.failed

\* C22: the pruner, run at the time now with the retention of 3 days, removes
\* every row whose request time is before now - 3 days and no row whose
\* request time is at or after it: a row 4 days old goes, a row of the time
\* now stays.
C22_PruneOlderThanCutoff ==
    Pruned =>
        /\ api.after = SelectSeq(api.before,
                                 LAMBDA row : row.request_time[2] >= api.call.now - 3)
        /\ \A t \in TimesOf(api.after) : t >= api.call.now - 3
        /\ api.call.now - 4 \notin TimesOf(api.after)
        /\ api.call.now \in TimesOf(api.before) => api.call.now \in TimesOf(api.after)

\* one call found a row 4 days old, a row exactly 3 days old and a row of the
\* time now, and left the last two
C22_Witness ==
    /\ Pruned
    /\ {api.call.now - 4, api.call.now - 3, api.call.now} \subseteq TimesOf(api.before)
    /\ TimesOf(api.after) = {api.call.now - 3, api.call.now}

\* the five operations of the management API
QueryOps == {"list", "details", "delete", "delete_many", "delete_all"}

\* no statement of the call in progress has reached the database
StoreUntouched ==
    /\ api.step = "done"
    /\ api.logs = <<>>
    /\ api.before = <<>>
    /\ api.after = <<>>
    /\ api.count = 0 - 1
    /\ ~api.failed

\* C23: every operation of the management API that is invoked without an
\* accepted session credential answers 401, before any statement reaches the
\* database.
C23_Unauthenticated401 ==
    (api.call.op \in QueryOps /\ ~api.call.auth) =>
        api_resp.status = 401 /\ StoreUntouched

\* C23, amended: every operation of the management API that is invoked
\* without an accepted session credential is rejected before any statement
\* reaches the database, with 401 when its parameters pass validation and
\* with 422 when they do not.
C23_UnauthenticatedRejected ==
    (api.call.op \in QueryOps /\ ~api.call.auth) =>
        /\ api_resp.status = (IF ValidCall(api.call) THEN 401 ELSE 422)
        /\ StoreUntouched

\* delete-all without a credential on a full table: 401, the rows are there
C23_Witness ==
    /\ api.call.op = "delete_all"
    /\ ~api.call.auth
    /\ api.step = "done"
    /\ api_resp.status = 401
    /\ Len(store) = MaxRows

\* C24: an operation of the management API whose statement fails in the
\* database answers 500, whichever of the five it is.
C24_StoreFailure500 ==
    (api.call.op \in QueryOps /\ api.step = "done" /\ api.failed) =>
        api_resp.status = 500

\* C27: delete-all and the pruner return the number of rows that the call
\* removed, whatever is inserted while the call runs; the pruner that finds no
\* row older than the cutoff returns 0 and removes nothing.
C27_CountIsRowsRemoved ==
    (api.step = "done" /\ api.call.op \in {"delete_all", "prune"} /\ ~api.failed
        /\ api.call.auth) =>
        /\ api.count = Len(api.before) - Len(api.after)
        /\ (api.call.op = "prune"
              /\ \A t \in TimesOf(api.before) : t >= api.call.now - 3) =>
              api.count = 0 /\ api.after = api.before

\* the rows of a table
RowsOf(table) == {table[i] : i \in 1..Len(table)}

\* a step keeps every row as it is: a row of the table after the step is a
\* row of the table before it, or the row that a persistence task appends
\* under the id the table assigns
RowsKept ==
    \A row \in RowsOf(store') :
        \/ row \in RowsOf(store)
        \/ /\ tasks # <<>>
           /\ row = [id |-> next_id] @@ Head(tasks)
           /\ row.id \notin IdsOf(store)

\* a step removes a row only as the delete statement of delete-one,
\* delete-many, delete-all or the pruner
RowsLeaveByDelete ==
    (\E row \in RowsOf(store) : row \notin RowsOf(store')) =>
        /\ api.call.op \in {"delete", "delete_many", "delete_all", "prune"}
        /\ api.step \in {"querying", "deleting"}
        /\ api'.step = "done"

\* C28: a stored record is never modified: every step leaves the rows of the
\* table with their ids and values, the ids are unique, a row leaves the table
\* only through a delete operation or the pruner, and list and details change
\* nothing.
C28_RecordsNeverModified ==
    /\ [](\A i, j \in 1..Len(store) : i # j => store[i].id # store[j].id)
    /\ [][/\ RowsKept
          /\ RowsLeaveByDelete
          /\ api.call.op \in {"list", "details"} /\ api' # api /\ api'.call = api.call
                => store' = store]_vars

\* two calls in a row with an insert: a delete that removed a row, then the
\* details of a row that is still there
C28_Witness ==
    /\ api.round = 2
    /\ api.step = "done"
    /\ api.call.op = "details"
    /\ api_resp.status = 200
    /\ Len(api.prev.before) > Len(api.prev.after)
    /\ next_id = MaxRows + 2
    /\ Len(store) > 1

\* the columns of a record
RecordColumns ==
    {"id", "method", "path", "request_headers", "request_body", "status_code",
     "response_body", "latency_ms", "model_name", "api_key", "request_time",
     "prompt_tokens", "completion_tokens", "total_tokens", "content_preview"}

\* C29: a list call whose database does not fail is answered with the rows in
\* the order of the requested column, ascending when sort_order is asc in
\* whatever case and descending otherwise; a sort_by that names no column of
\* the record orders by id and does not make the call fail.
C29_SortedAsRequested ==
    (/\ api.call.op = "list"
     /\ api.step = "done"
     /\ api.call.auth
     /\ ValidCall(api.call)
     /\ ~api.failed) =>
        /\ api_resp.status = 200
        /\ LET column == IF api.call.sort_by \in RecordColumns
                         THEN api.call.sort_by ELSE "id"
               ascending == api.call.sort_order \in {"asc", "ASC", "Asc"}
               logs == api_resp.content.logs
           IN \A i, j \in 1..Len(logs) : i < j =>
                  IF ascending THEN logs[i][column] <= logs[j][column]
                  ELSE logs[i][column] >= logs[j][column]

\* the appends scheduled so far: a task is pending, or it has inserted its
\* row, or it has failed and left its message in the log
Scheduled == Len(tasks) + Len(store) + Len(log)

C30_HandlerExceptionPropagates ==
    /\ [](pc = "Raised" /\ should_monitor(request.path) =>
             /\ returned.kind = "exception"
             /\ tasks = <<>> /\ store = <<>> /\ log = <<>>)
    /\ [][pc = "Forwarding" /\ pc' = "Raised" =>
             /\ returned' = [kind |-> "exception", source |-> "handler"]
             /\ UNCHANGED <<tasks, store, log>>]_vars

\* the handler of a monitored exchange raised after the request body was read
C30_Witness ==
    /\ pc = "Raised"
    /\ should_monitor(request.path)
    /\ returned = [kind |-> "exception", source |-> "handler"]
    /\ body_read = "read"
    /\ handler_calls = 1

\* C26: once the response has been captured and the persistence task
\* scheduled, the append is eventually attempted, whether or not the response
\* has been returned or the connection is still there: the task ends with the
\* row inserted or with the failure logged, and a row inserted is the record
\* that was captured.
C26_AppendEventuallyAttempted ==
    /\ (Len(tasks) = 1) ~> (tasks = <<>> /\ Len(store) + Len(log) = 1)
    /\ [][(Len(tasks') < Len(tasks) /\ store' # store) =>
             store' = Append(store, [id |-> next_id] @@ Head(tasks))]_vars

\* the task has run after the return and the row holds the captured status
C26_Witness ==
    /\ pc = "Done"
    /\ tasks = <<>>
    /\ Len(store) = 1
    /\ log = <<>>
    /\ store[1].status_code = response.status
    /\ add_result = "True"

====
